---- MODULE Spec2Model ----
(***************************************************************************)
(* Pist01Beat matchup scoring pipeline.                                    *)
(*                                                                         *)
(* Strings are sequences of one-character strings, so that strip() and     *)
(* upper() are computed and not assumed.  Real numbers are integers in a   *)
(* fixed unit that is stated where each field is computed.                 *)
(***************************************************************************)
EXTENDS Integers, Sequences, FiniteSets, TLC

VARIABLES
    wiring,             \* the engines held by the IntegrationEngine instance
    pc,                 \* position of the caller / of compute_integrated_state
    home_arg, away_arg, notes_arg,   \* arguments as passed by the caller
    home_team, away_team,            \* the locals after lines 79-80
    identity_result, chaos_result, volatility_result,
    integrated_state,   \* the value returned to the caller
    err,                \* the exception that left the call
    calls,              \* engine methods invoked by the current call, in order
    snap,               \* an earlier finished call of the same instance
    TEAM_PROFILES,      \* config.TEAM_PROFILES
    team_code,          \* argument of get_team_profile
    resolved,           \* outcome of get_team_profile
    prediction,         \* the value returned by Pist01Beat.predict
    SPREAD_TOTAL_BASELINES,   \* config.SPREAD_TOTAL_BASELINES
    CHAOS_BASELINES,          \* config.CHAOS_BASELINES
    VOLATILITY_BASELINES,     \* config.VOLATILITY_BASELINES
    matchup,            \* the baseline-weighted engine called and its arguments
    call_outcome        \* what that call returned or raised

vars == << wiring, pc, home_arg, away_arg, notes_arg, home_team, away_team,
           identity_result, chaos_result, volatility_result,
           integrated_state, err, calls, snap,
           TEAM_PROFILES, team_code, resolved, prediction,
           SPREAD_TOTAL_BASELINES, CHAOS_BASELINES, VOLATILITY_BASELINES,
           matchup, call_outcome >>

orchVars == << wiring, pc, home_arg, away_arg, notes_arg, home_team, away_team,
               identity_result, chaos_result, volatility_result,
               integrated_state, err, calls >>

resolverVars == << TEAM_PROFILES, team_code, resolved >>

baselineVars == << SPREAD_TOTAL_BASELINES, CHAOS_BASELINES, VOLATILITY_BASELINES,
                  matchup, call_outcome >>

----------------------------------------------------------------------------
(* Bounds *)

\* Largest number of blanks put in front of, and behind, a code.
MaxPad == 1

----------------------------------------------------------------------------
(* Python values *)

None == [type |-> "NoneType"]

NoError == [kind |-> "none", origin |-> "none"]

----------------------------------------------------------------------------
(* str.strip() and str.upper() *)

Whitespace == {" "}

UpperChar(c) ==
    CASE c = "d" -> "D" [] c = "e" -> "E" [] c = "n" -> "N"
      [] c = "h" -> "H" [] c = "o" -> "O" [] c = "r" -> "R"
      [] c = "g" -> "G" [] c = "i" -> "I" [] c = "c" -> "C"
      [] c = "x" -> "X" [] c = "y" -> "Y" [] c = "b" -> "B" [] c = "s" -> "S"
      [] OTHER -> c

LowerChar(c) ==
    CASE c = "D" -> "d" [] c = "E" -> "e" [] c = "N" -> "n"
      [] c = "H" -> "h" [] c = "O" -> "o" [] c = "R" -> "r"
      [] c = "G" -> "g" [] c = "I" -> "i" [] c = "C" -> "c"
      [] c = "X" -> "x" [] c = "Y" -> "y" [] c = "B" -> "b" [] c = "S" -> "s"
      [] OTHER -> c

Ord(c) ==
    CASE c = " " -> 32
      [] c = "B" -> 66  [] c = "S" -> 83  [] c = "b" -> 98  [] c = "s" -> 115
      [] c = "C" -> 67  [] c = "D" -> 68  [] c = "E" -> 69  [] c = "G" -> 71
      [] c = "H" -> 72  [] c = "I" -> 73  [] c = "N" -> 78  [] c = "O" -> 79
      [] c = "R" -> 82  [] c = "X" -> 88  [] c = "Y" -> 89
      [] c = "c" -> 99  [] c = "d" -> 100 [] c = "e" -> 101 [] c = "g" -> 103
      [] c = "h" -> 104 [] c = "i" -> 105 [] c = "n" -> 110 [] c = "o" -> 111
      [] c = "r" -> 114 [] c = "x" -> 120 [] c = "y" -> 121

Upper(s) == [i \in 1..Len(s) |-> UpperChar(s[i])]

Lower(s) == [i \in 1..Len(s) |-> LowerChar(s[i])]

RECURSIVE LStrip(_)
LStrip(s) ==
    IF s = <<>> THEN s
    ELSE IF Head(s) \in Whitespace THEN LStrip(Tail(s)) ELSE s

RECURSIVE RStrip(_)
RStrip(s) ==
    IF s = <<>> THEN s
    ELSE IF s[Len(s)] \in Whitespace THEN RStrip(SubSeq(s, 1, Len(s) - 1)) ELSE s

Strip(s) == RStrip(LStrip(s))

\* home_team.strip().upper()
StripUpper(s) == Upper(Strip(s))

\* (team_code or "").upper().strip()
UpperStrip(s) == Strip(Upper(s))

RECURSIVE SumOrd(_)
SumOrd(s) == IF s = <<>> THEN 0 ELSE Ord(Head(s)) + SumOrd(Tail(s))

\* round() of the exact rational n/d to an integer when n/d is no tie.
RoundNearest(n, d) == (2 * n + d) \div (2 * d)

----------------------------------------------------------------------------
(* pist01beat/identity_engine.py: the hash-derived identity engine the     *)
(* orchestrator constructs by default.                                     *)

\* IdentityEngine.__init__ defaults.
IdentityBaseTotalAnchor == 225
IdentityMaxPaceAdjust == 15
IdentityPowerScale == 25

\* Even raw pace values make 222.75 + 0.15 * raw a decimal tie at one place;
\* for these the binary64 evaluation of lines 133-134 lies above the tie and
\* round(..., 1) goes up, for the other even values it goes down.
BaseTotalTieRoundsUp == {0, 2, 6, 12, 16, 20, 22, 26}

IdentityTeamHash(team_code_) ==
    LET c == UpperStrip(team_code_) IN IF c = <<>> THEN 0 ELSE SumOrd(c)

\* (home_hash + away_hash) % 31, the integer behind pace_factor.
PaceRaw(home_hash, away_hash) == (home_hash + away_hash) % 31

\* pace_factor in hundredths: 0.85 + 0.30 * raw / 30.
ComputePaceFactor(home_hash, away_hash) == 85 + PaceRaw(home_hash, away_hash)

\* power_diff in hundredths: (home_hash - away_hash) / power_scale.
ComputePowerDiff(home_hash, away_hash) ==
    (100 * (home_hash - away_hash)) \div IdentityPowerScale

\* IdentityEngine.compute_identity.  base_spread and base_total are in
\* tenths (round(., 1)), pace_offset in thousandths.
HashIdentity(home, away) ==
    LET home_team_code == UpperStrip(home)
        away_team_code == UpperStrip(away)
        home_hash == IdentityTeamHash(home_team_code)
        away_hash == IdentityTeamHash(away_team_code)
        raw == PaceRaw(home_hash, away_hash)
        pace_factor == ComputePaceFactor(home_hash, away_hash)
        power_diff == ComputePowerDiff(home_hash, away_hash)
        base_spread == RoundNearest(-10 * (home_hash - away_hash), IdentityPowerScale)
        pace_offset == (pace_factor - 100) * IdentityMaxPaceAdjust * 10
        total_milli == IdentityBaseTotalAnchor * 1000 + pace_offset
        base_total ==
            IF total_milli % 100 = 50
            THEN (total_milli \div 100) + (IF raw \in BaseTotalTieRoundsUp THEN 1 ELSE 0)
            ELSE RoundNearest(total_milli, 100)
    IN  [ type |-> "IdentityResult",
          engine |-> "identity",
          engine_version |-> "3.4-identity",
          home_team |-> home_team_code,
          away_team |-> away_team_code,
          pace_factor |-> pace_factor,
          power_diff |-> power_diff,
          base_spread |-> base_spread,
          base_total |-> base_total,
          debug |-> [ home_team_code |-> home_team_code,
                      away_team_code |-> away_team_code,
                      home_hash |-> home_hash,
                      away_hash |-> away_hash,
                      pace_offset |-> pace_offset,
                      params |-> [ base_total_anchor |-> IdentityBaseTotalAnchor,
                                   max_pace_adjust |-> IdentityMaxPaceAdjust,
                                   power_scale |-> IdentityPowerScale ] ] ]

----------------------------------------------------------------------------
(* pist01beat/chaos_engine.py: the hash-derived chaos engine.  Parameters  *)
(* are in hundredths; scores are in units of 1/99900, the common           *)
(* denominator of hundredths and raw / 999.                                *)

HashDen == 999

ScoreOne == 100 * HashDen

\* ChaosEngine.__init__ defaults, in hundredths.
ChaosDefaults ==
    [ base_floor |-> 15, base_ceiling |-> 85,
      low_threshold |-> 35, high_threshold |-> 65,
      note_boost_per_tag |-> 6, max_note_boost |-> 18 ]

ChaosTeamHash(team_code_) ==
    LET c == UpperStrip(team_code_) IN IF c = <<>> THEN 0 ELSE SumOrd(c)

ChaosPairHash(home_code, away_code) ==
    (ChaosTeamHash(home_code) * 31 + ChaosTeamHash(away_code) * 17) % 1000

ChaosNormalizeBaseScore(p, raw) ==
    p.base_floor * HashDen + (p.base_ceiling - p.base_floor) * raw

\* A notes string is held as what notes.split(",") yields.
RECURSIVE NonEmptyTags(_)
NonEmptyTags(parts) ==
    IF parts = <<>> THEN <<>>
    ELSE LET t == Lower(Strip(Head(parts)))
         IN  IF t = <<>> THEN NonEmptyTags(Tail(parts))
             ELSE <<t>> \o NonEmptyTags(Tail(parts))

ParseNotes(notes) ==
    IF notes.type = "NoneType" THEN <<>>
    ELSE IF notes.parts = << <<>> >> THEN <<>>
    ELSE NonEmptyTags(notes.parts)

NoteBoost(p, tags) ==
    IF tags = <<>> THEN 0
    ELSE LET boost == Len(tags) * p.note_boost_per_tag
         IN  (IF boost > p.max_note_boost THEN p.max_note_boost ELSE boost) * HashDen

\* Mutant: a score equal to the low threshold is LOW.
ChaosLabelFlag_LowInclusive(p, score) ==
    IF score <= p.low_threshold * HashDen THEN "LOW"
    ELSE IF score < p.high_threshold * HashDen THEN "MEDIUM"
    ELSE "HIGH"

\* Lines 145-153.
ChaosLabelFlag(p, score) ==
    IF score < p.low_threshold * HashDen THEN "LOW"
    ELSE IF score < p.high_threshold * HashDen THEN "MEDIUM"
    ELSE "HIGH"

\* Mutant: no clamp.
ChaosClamp_None(score) == score

\* Lines 186-190.
ChaosClamp(score) ==
    IF score < 0 THEN 0 ELSE IF score > ScoreOne THEN ScoreOne ELSE score

\* ChaosEngine.compute_chaos.
HashChaos(p, home, away, notes) ==
    LET home_code == UpperStrip(home)
        away_code == UpperStrip(away)
        raw_hash == ChaosPairHash(home_code, away_code)
        base_score == ChaosNormalizeBaseScore(p, raw_hash)
        tags == ParseNotes(notes)
        boost == NoteBoost(p, tags)
        chaos_score == ChaosClamp(base_score + boost)
        chaos_flag == ChaosLabelFlag(p, chaos_score)
        drivers ==
            (IF tags # <<>> THEN <<"note_tags_present">> ELSE <<>>)
            \o (IF chaos_flag = "HIGH" THEN <<"high_environmental_volatility">>
                ELSE IF chaos_flag = "MEDIUM" THEN <<"moderate_environmental_volatility">>
                ELSE <<"stable_environment">>)
    IN  [ type |-> "ChaosResult",
          engine |-> "chaos",
          engine_version |-> "3.4-chaos",
          home_team |-> home_code,
          away_team |-> away_code,
          chaos_score |-> chaos_score,
          chaos_flag |-> chaos_flag,
          drivers |-> drivers,
          debug |-> [ home_code |-> home_code,
                      away_code |-> away_code,
                      raw_hash |-> raw_hash,
                      base_score |-> base_score,
                      note_tags |-> tags,
                      note_boost |-> boost,
                      params |-> p ] ]

----------------------------------------------------------------------------
(* pist01beat/volatility_engine.py: the hash-derived volatility engine.    *)

\* VolatilityEngine.__init__ defaults, in hundredths.
VolatilityDefaults ==
    [ base_floor |-> 10, base_ceiling |-> 70,
      low_threshold |-> 25, high_threshold |-> 50 ]

VolatilityTeamHash(team_code_) ==
    LET c == UpperStrip(team_code_) IN IF c = <<>> THEN 0 ELSE SumOrd(c)

VolatilityPairHash(home_code, away_code) ==
    (VolatilityTeamHash(home_code) * 13 + VolatilityTeamHash(away_code) * 29) % 1000

\* Mutant: the normalised score is clamped to [0, 1].
VolatilityNormalize_Clamped(p, raw) ==
    ChaosClamp(p.base_floor * HashDen + (p.base_ceiling - p.base_floor) * raw)

\* Lines 88-93.
VolatilityNormalize(p, raw) ==
    p.base_floor * HashDen + (p.base_ceiling - p.base_floor) * raw

VolatilityLabel(p, score) ==
    IF score < p.low_threshold * HashDen THEN "LOW"
    ELSE IF score < p.high_threshold * HashDen THEN "MEDIUM"
    ELSE "HIGH"

\* VolatilityEngine.compute_volatility.
HashVolatility(p, home, away) ==
    LET home_code == UpperStrip(home)
        away_code == UpperStrip(away)
        raw == VolatilityPairHash(home_code, away_code)
        volatility_score == VolatilityNormalize(p, raw)
        volatility_flag == VolatilityLabel(p, volatility_score)
    IN  [ type |-> "VolatilityResult",
          engine |-> "volatility",
          engine_version |-> "3.4-volatility",
          home_team |-> home_code,
          away_team |-> away_code,
          volatility_score |-> volatility_score,
          volatility_flag |-> volatility_flag,
          debug |-> [ home_code |-> home_code,
                      away_code |-> away_code,
                      raw_hash |-> raw,
                      params |-> p ] ]

----------------------------------------------------------------------------
(* Engines as the orchestrator sees them: objects whose method returns a   *)
(* value or raises.  The constructor takes any object for each slot.       *)

Ok(v) == [raised |-> FALSE, value |-> v, error |-> NoError]

Raise(e) == [raised |-> TRUE, value |-> None, error |-> e]

\* "default": the engine IntegrationEngine.__init__ constructs itself;
\* "stub": an injected engine that returns a placeholder mapping;
\* "raising": an injected engine whose method raises.
EngineKinds == {"default", "stub", "raising"}

Wirings == [identity : EngineKinds, chaos : EngineKinds, volatility : EngineKinds]

DefaultWiring == [identity |-> "default", chaos |-> "default", volatility |-> "default"]

\* The placeholder mappings of main.py's skeleton engines (scores in hundredths).
StubIdentityValue ==
    [ type |-> "dict", home_identity_score |-> 100, away_identity_score |-> 100,
      notes |-> "IdentityEngine placeholder executed." ]

StubChaosValue ==
    [ type |-> "dict", chaos_prob |-> 5, chaos_flag |-> "low",
      notes |-> "ChaosEngine placeholder executed." ]

StubVolatilityValue ==
    [ type |-> "dict", volatility_score |-> 10, volatility_flag |-> "normal",
      notes |-> "VolatilityEngine placeholder executed." ]

\* What a configuration-driven engine raises on a missing baseline key.
EngineError(stage) == [kind |-> "CalculationError", origin |-> stage]

\* self.identity_engine.compute_identity(home_team=..., away_team=...)
CallIdentity(kind, home, away) ==
    CASE kind = "default" -> Ok(HashIdentity(home, away))
      [] kind = "stub" -> Ok(StubIdentityValue)
      [] kind = "raising" -> Raise(EngineError("identity"))

\* self.chaos_engine.compute_chaos(home_team=..., away_team=..., notes=notes)
CallChaos(kind, home, away, notes) ==
    CASE kind = "default" -> Ok(HashChaos(ChaosDefaults, home, away, notes))
      [] kind = "stub" -> Ok(StubChaosValue)
      [] kind = "raising" -> Raise(EngineError("chaos"))

\* self.volatility_engine.compute_volatility(home_team=..., away_team=...)
CallVolatility(kind, home, away) ==
    CASE kind = "default" -> Ok(HashVolatility(VolatilityDefaults, home, away))
      [] kind = "stub" -> Ok(StubVolatilityValue)
      [] kind = "raising" -> Raise(EngineError("volatility"))

----------------------------------------------------------------------------
(* pist01beat/integration_engine.py: IntegrationEngine                     *)

IntegrationEngineVersion == "3.4-integration-minimal"

\* Mutant: the check of line 85 left out.
ValidateMatchup_NoEqualCheck(home, away) ==
    IF home = <<>> \/ away = <<>>
    THEN [kind |-> "ValueError", origin |-> "validate",
          msg |-> "home_team and away_team must be non-empty strings."]
    ELSE NoError

\* Lines 82-86: the error the two checks raise, NoError when both pass.
ValidateMatchup(home, away) ==
    IF home = <<>> \/ away = <<>>
    THEN [kind |-> "ValueError", origin |-> "validate",
          msg |-> "home_team and away_team must be non-empty strings."]
    ELSE IF home = away
    THEN [kind |-> "ValueError", origin |-> "validate",
          msg |-> "home_team and away_team must be different teams."]
    ELSE NoError

\* Mutant: an engine's exception is caught and the run goes on with None.
Propagate_Swallow(outcome, next) ==
    [pc |-> next, value |-> outcome.value, err |-> NoError]

\* An engine call inside compute_integrated_state: there is no try/except,
\* so an exception leaves the call and a value goes on to the next statement.
Propagate(outcome, next) ==
    IF outcome.raised
    THEN [pc |-> "raised", value |-> None, err |-> outcome.error]
    ELSE [pc |-> next, value |-> outcome.value, err |-> NoError]

\* Lines 106-118.
BundleState(home, away, identity, chaos, volatility) ==
    [ type |-> "dict",
      engine_version |-> IntegrationEngineVersion,
      home_team |-> home,
      away_team |-> away,
      identity |-> identity,
      chaos |-> chaos,
      volatility |-> volatility,
      debug |-> [ identity_type |-> identity.type,
                  chaos_type |-> chaos.type,
                  volatility_type |-> volatility.type ] ]

\* The caller invokes compute_integrated_state(home, away, notes).
Call(h, a, n) ==
    /\ pc = "idle"
    /\ pc' = "validate"
    /\ home_arg' = h /\ away_arg' = a /\ notes_arg' = n
    /\ UNCHANGED << wiring, home_team, away_team, identity_result, chaos_result,
                    volatility_result, integrated_state, err, calls, snap,
                    prediction >>
    /\ UNCHANGED << resolverVars, baselineVars >>

\* Mutant: the identity engine is invoked on the raw arguments before the
\* codes are checked.
Validate_EngineFirst ==
    /\ pc = "validate"
    /\ home_team' = StripUpper(home_arg)
    /\ away_team' = StripUpper(away_arg)
    /\ calls' = Append(calls, "identity")
    /\ LET e == ValidateMatchup(home_team', away_team')
       IN  IF e # NoError
           THEN pc' = "raised" /\ err' = e
           ELSE pc' = "identity" /\ err' = NoError
    /\ UNCHANGED << wiring, home_arg, away_arg, notes_arg, identity_result,
                    chaos_result, volatility_result, integrated_state,
                    snap, prediction >>
    /\ UNCHANGED << resolverVars, baselineVars >>

\* Lines 79-86.
Validate ==
    /\ pc = "validate"
    /\ home_team' = StripUpper(home_arg)
    /\ away_team' = StripUpper(away_arg)
    /\ LET e == ValidateMatchup(home_team', away_team')
       IN  IF e # NoError
           THEN pc' = "raised" /\ err' = e
           ELSE pc' = "identity" /\ err' = NoError
    /\ UNCHANGED << wiring, home_arg, away_arg, notes_arg, identity_result,
                    chaos_result, volatility_result, integrated_state, calls,
                    snap, prediction >>
    /\ UNCHANGED << resolverVars, baselineVars >>

\* Mutant: the identity engine is given the two codes in the other order.
IdentityStage_SwappedCodes ==
    /\ pc = "identity"
    /\ LET r == Propagate(CallIdentity(wiring.identity, away_team, home_team), "chaos")
       IN  pc' = r.pc /\ identity_result' = r.value /\ err' = r.err
    /\ calls' = Append(calls, "identity")
    /\ UNCHANGED << wiring, home_arg, away_arg, notes_arg, home_team, away_team,
                    chaos_result, volatility_result, integrated_state, snap,
                    prediction >>
    /\ UNCHANGED << resolverVars, baselineVars >>

\* Lines 89-92.
IdentityStage ==
    /\ pc = "identity"
    /\ LET r == Propagate(CallIdentity(wiring.identity, home_team, away_team), "chaos")
       IN  pc' = r.pc /\ identity_result' = r.value /\ err' = r.err
    /\ calls' = Append(calls, "identity")
    /\ UNCHANGED << wiring, home_arg, away_arg, notes_arg, home_team, away_team,
                    chaos_result, volatility_result, integrated_state, snap,
                    prediction >>
    /\ UNCHANGED << resolverVars, baselineVars >>

\* Mutant: the instance keeps the notes of the run before and uses them when a
\* run passes none.
ChaosStage_StaleNotes ==
    /\ pc = "chaos"
    /\ LET kept == IF notes_arg = None /\ snap.type = "call"
                   THEN snap.notes ELSE notes_arg
           r == Propagate(CallChaos(wiring.chaos, home_team, away_team, kept),
                          "volatility")
       IN  pc' = r.pc /\ chaos_result' = r.value /\ err' = r.err
    /\ calls' = Append(calls, "chaos")
    /\ UNCHANGED << wiring, home_arg, away_arg, notes_arg, home_team, away_team,
                    identity_result, volatility_result, integrated_state, snap,
                    prediction >>
    /\ UNCHANGED << resolverVars, baselineVars >>

\* Lines 94-98.
ChaosStage ==
    /\ pc = "chaos"
    /\ LET r == Propagate(CallChaos(wiring.chaos, home_team, away_team, notes_arg),
                          "volatility")
       IN  pc' = r.pc /\ chaos_result' = r.value /\ err' = r.err
    /\ calls' = Append(calls, "chaos")
    /\ UNCHANGED << wiring, home_arg, away_arg, notes_arg, home_team, away_team,
                    identity_result, volatility_result, integrated_state, snap,
                    prediction >>
    /\ UNCHANGED << resolverVars, baselineVars >>

\* Mutant: notes reach the volatility stage too, which adds the note boost.
VolatilityStage_PassesNotes ==
    /\ pc = "volatility"
    /\ LET r == Propagate(CallVolatility(wiring.volatility, home_team, away_team),
                          "bundle")
           b == NoteBoost(ChaosDefaults, ParseNotes(notes_arg))
       IN  /\ pc' = r.pc /\ err' = r.err
           /\ volatility_result' =
                 IF "volatility_score" \in DOMAIN r.value
                 THEN [r.value EXCEPT !.volatility_score = @ + b]
                 ELSE r.value
    /\ calls' = Append(calls, "volatility")
    /\ UNCHANGED << wiring, home_arg, away_arg, notes_arg, home_team, away_team,
                    identity_result, chaos_result, integrated_state, snap,
                    prediction >>
    /\ UNCHANGED << resolverVars, baselineVars >>

\* Lines 100-103.
VolatilityStage ==
    /\ pc = "volatility"
    /\ LET r == Propagate(CallVolatility(wiring.volatility, home_team, away_team),
                          "bundle")
       IN  pc' = r.pc /\ volatility_result' = r.value /\ err' = r.err
    /\ calls' = Append(calls, "volatility")
    /\ UNCHANGED << wiring, home_arg, away_arg, notes_arg, home_team, away_team,
                    identity_result, chaos_result, integrated_state, snap,
                    prediction >>
    /\ UNCHANGED << resolverVars, baselineVars >>

\* Lines 105-120.
ReturnState ==
    /\ pc = "bundle"
    /\ integrated_state' = BundleState(home_team, away_team, identity_result,
                                       chaos_result, volatility_result)
    /\ pc' = "returned"
    /\ UNCHANGED << wiring, home_arg, away_arg, notes_arg, home_team, away_team,
                    identity_result, chaos_result, volatility_result, err, calls,
                    snap, prediction >>
    /\ UNCHANGED << resolverVars, baselineVars >>

----------------------------------------------------------------------------
(* pist01beat/model.py: the public wrapper                                 *)

WrapperVersion == "3.4-wrapper-bootstrap"

\* Pist01Beat.predict: model_spread in tenths, model_total in tenths.
PredictResult(h, a) ==
    [ type |-> "dict",
      engine_version |-> WrapperVersion,
      home_team |-> h,
      away_team |-> a,
      model_spread |-> 0,
      model_total |-> 2200,
      debug |-> [ note |-> "Bootstrap Pist01Beat.predict placeholder. Engines not yet wired.",
                  home_team |-> h,
                  away_team |-> a ] ]

Predict(h, a) ==
    /\ pc = "idle"
    /\ pc' = "predicted"
    /\ home_arg' = h /\ away_arg' = a
    /\ prediction' = PredictResult(h, a)
    /\ UNCHANGED << wiring, notes_arg, home_team, away_team, identity_result,
                    chaos_result, volatility_result, integrated_state, err, calls,
                    snap >>
    /\ UNCHANGED << resolverVars, baselineVars >>

----------------------------------------------------------------------------
(* The caller *)

FreshFrame ==
    /\ pc' = "idle"
    /\ home_arg' = <<>> /\ away_arg' = <<>> /\ notes_arg' = None
    /\ home_team' = <<>> /\ away_team' = <<>>
    /\ identity_result' = None /\ chaos_result' = None /\ volatility_result' = None
    /\ integrated_state' = None /\ err' = NoError /\ calls' = <<>>
    /\ prediction' = None

\* The call is over; its frame and its result are dropped.
Release ==
    /\ pc \in {"returned", "raised", "predicted"}
    /\ FreshFrame
    /\ UNCHANGED << wiring, snap >>
    /\ UNCHANGED << resolverVars, baselineVars >>

\* The inputs of the checked calls.
Spaces(k) == [i \in 1..k |-> " "]

CoreCodes == { <<>>, <<"d", "e", "n">>, <<"D", "E", "N">>, <<"h", "o", "r">> }

Codes == { Spaces(l) \o c \o Spaces(r) : l \in 0..MaxPad, r \in 0..MaxPad, c \in CoreCodes }

Str(parts) == [type |-> "str", parts |-> parts]

\* None, "", " X ,,y,x,d".
NotesValues ==
    { None, Str(<< <<>> >>),
      Str(<< <<" ", "X", " ">>, <<>>, <<"y">>, <<"x">>, <<"d">> >>) }

\* No call is in progress.
\* No baseline set is loaded and no baseline-weighted engine has been called.
NoBaselines ==
    /\ SPREAD_TOTAL_BASELINES = None /\ CHAOS_BASELINES = None
    /\ VOLATILITY_BASELINES = None
    /\ matchup = None /\ call_outcome = None

IdleFrame ==
    /\ pc = "idle"
    /\ home_arg = <<>> /\ away_arg = <<>> /\ notes_arg = None
    /\ home_team = <<>> /\ away_team = <<>>
    /\ identity_result = None /\ chaos_result = None /\ volatility_result = None
    /\ integrated_state = None /\ err = NoError /\ calls = <<>>
    /\ prediction = None

Init ==
    /\ wiring \in Wirings
    /\ IdleFrame
    /\ snap = None
    /\ TEAM_PROFILES = None /\ team_code = <<>> /\ resolved = None
    /\ NoBaselines

Next ==
    \/ \E h \in Codes, a \in Codes, n \in NotesValues : Call(h, a, n)
    \/ Validate
    \/ IdentityStage
    \/ ChaosStage
    \/ VolatilityStage
    \/ ReturnState
    \/ \E h \in Codes, a \in Codes : Predict(h, a)
    \/ Release

Spec == Init /\ [][Next]_vars

----------------------------------------------------------------------------
(* Two calls of one instance: a finished call may be remembered, and a     *)
(* later call is compared with it.                                         *)

Remember ==
    /\ pc \in {"returned", "raised"}
    /\ snap' = [ type |-> "call", home |-> home_arg, away |-> away_arg,
                 notes |-> notes_arg, pc |-> pc, state |-> integrated_state,
                 err |-> err ]
    /\ FreshFrame
    /\ UNCHANGED wiring
    /\ UNCHANGED << resolverVars, baselineVars >>

\* "den", " DEN", "hor", "".
PairCodes == { <<"d", "e", "n">>, <<" ", "D", "E", "N">>, <<"h", "o", "r">>, <<>> }

PairWirings ==
    { DefaultWiring,
      [DefaultWiring EXCEPT !.volatility = "raising"],
      [DefaultWiring EXCEPT !.chaos = "stub"] }

InitPair ==
    /\ wiring \in PairWirings
    /\ IdleFrame
    /\ snap = None
    /\ TEAM_PROFILES = None /\ team_code = <<>> /\ resolved = None
    /\ NoBaselines

NextPair ==
    \/ \E h \in PairCodes, a \in PairCodes, n \in NotesValues : Call(h, a, n)
    \/ Validate
    \/ IdentityStage
    \/ ChaosStage
    \/ VolatilityStage
    \/ ReturnState
    \/ Release
    \/ Remember

SpecPair == InitPair /\ [][NextPair]_vars

----------------------------------------------------------------------------
(* identity_engine.py (top level): the profile resolver.  Numbers are      *)
(* integers in thousandths.                                                *)

\* Values a configuration can hold.
PyFloat(m) == [type |-> "float", milli |-> m]

PyInt(m) == [type |-> "int", milli |-> m]

PyBool(m) == [type |-> "bool", milli |-> m]

\* An int beyond the range of a float, such as 10**400.
HugeInt == [type |-> "int", huge |-> TRUE]

NumStr(m) == [type |-> "str", numeric |-> TRUE, milli |-> m]

Text(t) == [type |-> "str", numeric |-> FALSE, text |-> t]

Dict(items) == [type |-> "dict", items |-> items]

List == [type |-> "list"]

GENERIC == <<"G", "E", "N", "E", "R", "I", "C">>

TeamProfileError(msg, detail) ==
    [kind |-> "TeamProfileError", origin |-> "get_team_profile", msg |-> msg,
     detail |-> detail]

CalculationError(context) ==
    [kind |-> "CalculationError", origin |-> "_coerce_float", context |-> context]

\* float() of an int too large for a float; no handler in the module catches it.
OverflowError(origin) == [kind |-> "OverflowError", origin |-> origin]

\* float(value) raises OverflowError.
Overflows(value) == value.type = "int" /\ "huge" \in DOMAIN value

\* float(value) succeeds.
Coercible(value) ==
    \/ value.type \in {"int", "float", "bool"} /\ ~Overflows(value)
    \/ value.type = "str" /\ value.numeric

\* _coerce_float, lines 33-40: TypeError and ValueError are caught, nothing else.
CoerceFloat(value, context) ==
    IF Coercible(value) THEN Ok(value.milli)
    ELSE IF Overflows(value) THEN Raise(OverflowError("_coerce_float"))
    ELSE Raise(CalculationError(context))

\* Mutant: only the leading blanks are removed before the lookup.
NormalizeCode_LeftStripOnly(code) ==
    LET normalized_code == Upper(LStrip(code))
    IN  IF normalized_code = <<>> THEN GENERIC ELSE normalized_code

\* Lines 64-66.
NormalizeCode(code) ==
    LET normalized_code == StripUpper(code)
    IN  IF normalized_code = <<>> THEN GENERIC ELSE normalized_code

required_keys == <<"base_power", "offense", "defense", "pace", "chaos", "volatility">>

RequiredSet == {required_keys[i] : i \in 1..Len(required_keys)}

\* Mutant: an unknown code is an error even when GENERIC is defined.
LookupProfile_NoFallback(table, normalized_code) ==
    IF normalized_code \in DOMAIN table.items
    THEN [raised |-> FALSE, raw_profile |-> table.items[normalized_code],
          source_code |-> normalized_code, error |-> NoError]
    ELSE [raised |-> TRUE, raw_profile |-> None, source_code |-> normalized_code,
          error |-> TeamProfileError("Unknown team code and no GENERIC profile defined.",
                                     normalized_code)]

\* Lines 68-78: the entry the code resolves to, and the key it was found under.
LookupProfile(table, normalized_code) ==
    IF normalized_code \in DOMAIN table.items
    THEN [raised |-> FALSE, raw_profile |-> table.items[normalized_code],
          source_code |-> normalized_code, error |-> NoError]
    ELSE IF GENERIC \notin DOMAIN table.items
    THEN [raised |-> TRUE, raw_profile |-> None, source_code |-> normalized_code,
          error |-> TeamProfileError("Unknown team code and no GENERIC profile defined.",
                                     normalized_code)]
    ELSE [raised |-> FALSE, raw_profile |-> table.items[GENERIC],
          source_code |-> GENERIC, error |-> NoError]

\* Mutant: an entry that is no dict is read as an empty dict.
ShapeCheck_ReadsAsEmpty(found) ==
    IF found.raw_profile.type # "dict"
    THEN [found EXCEPT !.raw_profile = Dict(<<>>)]
    ELSE found

\* Lines 80-83.
ShapeCheck(found) ==
    IF found.raw_profile.type # "dict"
    THEN [found EXCEPT !.raised = TRUE,
             !.error = TeamProfileError("Profile must be a dict",
                                        <<found.source_code, found.raw_profile.type>>)]
    ELSE found

\* Line 88: the required keys the entry lacks, in the order of required_keys.
MissingKeys(raw_profile) ==
    SelectSeq(required_keys, LAMBDA k : k \notin DOMAIN raw_profile.items)

\* Mutant: a required value that float() rejects is read as 0.0.
ConvertValues_ZeroForBadValue(raw_profile, source_code) ==
    LET extras == {k \in DOMAIN raw_profile.items \ RequiredSet :
                      /\ raw_profile.items[k].type \in {"int", "float", "bool"}
                      /\ ~Overflows(raw_profile.items[k])}
    IN  Ok(Dict([k \in RequiredSet \cup extras |->
                    IF Coercible(raw_profile.items[k])
                    THEN raw_profile.items[k].milli ELSE 0]))

\* Lines 94-106, for an entry that has every required key: the required
\* values are converted in the order of required_keys and the first failure
\* leaves the call (94-97); then the additional int, float and bool values are
\* converted with float() (99-104) and everything else is left out.
ConvertValues(raw_profile, source_code) ==
    LET unconvertible == SelectSeq(required_keys,
                                   LAMBDA k : CoerceFloat(raw_profile.items[k], <<source_code, k>>).raised)
        extras == {k \in DOMAIN raw_profile.items \ RequiredSet :
                      raw_profile.items[k].type \in {"int", "float", "bool"}}
    IN  IF unconvertible # <<>>
        THEN Raise(CoerceFloat(raw_profile.items[unconvertible[1]],
                               <<source_code, unconvertible[1]>>).error)
        ELSE IF \E k \in extras : Overflows(raw_profile.items[k])
        THEN Raise(OverflowError("get_team_profile"))
        ELSE Ok(Dict([k \in RequiredSet \cup extras |-> raw_profile.items[k].milli]))

\* Mutant: only the first missing key is reported.
BuildProfile_FirstMissingOnly(raw_profile, source_code) ==
    LET missing == MissingKeys(raw_profile)
    IN  IF missing # <<>>
        THEN Raise(TeamProfileError("Profile is missing required keys",
                                    <<source_code, <<missing[1]>> >>))
        ELSE ConvertValues(raw_profile, source_code)

\* Lines 85-106, for an entry that is a dict: the missing keys are collected
\* and reported together (88-92) before any value is converted.
BuildProfile(raw_profile, source_code) ==
    LET missing == MissingKeys(raw_profile)
    IN  IF missing # <<>>
        THEN Raise(TeamProfileError("Profile is missing required keys", <<source_code, missing>>))
        ELSE ConvertValues(raw_profile, source_code)

\* get_team_profile, lines 43-106.
GetTeamProfile(table, code) ==
    IF table.type # "dict"
    THEN Raise(TeamProfileError("TEAM_PROFILES must be a dict in config.py", table.type))
    ELSE LET found == LookupProfile(table, NormalizeCode(code))
         IN  IF found.raised THEN Raise(found.error)
             ELSE LET shaped == ShapeCheck(found)
                  IN  IF shaped.raised THEN Raise(shaped.error)
                      ELSE BuildProfile(shaped.raw_profile, shaped.source_code)

\* A caller resolves one code against the loaded configuration.
Resolve(code) ==
    /\ team_code' = code
    /\ resolved' = GetTeamProfile(TEAM_PROFILES, code)
    /\ UNCHANGED TEAM_PROFILES
    /\ UNCHANGED << orchVars, snap, prediction, baselineVars >>

\* Configuration entries (thousandths).
DenEntry ==
    Dict([ base_power |-> PyFloat(10000), offense |-> PyFloat(6500), defense |-> PyInt(5000),
           pace |-> PyFloat(5000), chaos |-> NumStr(4500), volatility |-> PyFloat(5500) ])

HorEntry ==
    Dict([ base_power |-> PyInt(6000), offense |-> PyFloat(5500), defense |-> PyFloat(6000),
           pace |-> PyFloat(5000), chaos |-> PyFloat(6000), volatility |-> PyFloat(4000) ])

GenericEntry ==
    Dict([ base_power |-> PyFloat(5000), offense |-> PyFloat(5000), defense |-> PyFloat(5000),
           pace |-> PyFloat(5000), chaos |-> PyFloat(5000), volatility |-> PyFloat(5000) ])

NoPaceEntry ==
    Dict([ base_power |-> PyFloat(10000), offense |-> PyFloat(6500), defense |-> PyInt(5000),
           chaos |-> PyFloat(4500), volatility |-> PyFloat(5500) ])

BadPaceEntry ==
    Dict([ base_power |-> PyFloat(10000), offense |-> PyFloat(6500), defense |-> PyInt(5000),
           pace |-> Text("fast"), chaos |-> PyFloat(4500), volatility |-> None ])

ExtrasEntry ==
    Dict([ base_power |-> PyFloat(10000), offense |-> PyFloat(6500), defense |-> PyInt(5000),
           pace |-> PyFloat(5000), chaos |-> PyFloat(4500), volatility |-> PyFloat(5500),
           clutch |-> PyFloat(7500), seed |-> PyInt(3000), coach |-> Text("n/a"),
           rank |-> NumStr(9000), playoff |-> PyBool(1000), injuries |-> None ])

\* pace and chaos are missing; volatility is present and unconvertible.
NoPaceChaosEntry ==
    Dict([ base_power |-> PyFloat(10000), offense |-> PyFloat(6500), defense |-> PyInt(5000),
           volatility |-> Text("wild"), clutch |-> PyFloat(7500) ])

\* Only chaos is unconvertible; it is not the first required key.
BadChaosEntry ==
    Dict([ base_power |-> PyFloat(10000), offense |-> PyFloat(6500), defense |-> PyInt(5000),
           pace |-> PyFloat(5000), chaos |-> List, volatility |-> PyFloat(5500) ])

HugePaceEntry ==
    Dict([ base_power |-> PyFloat(10000), offense |-> PyFloat(6500), defense |-> PyInt(5000),
           pace |-> HugeInt, chaos |-> PyFloat(4500), volatility |-> PyFloat(5500) ])

HugeExtraEntry ==
    Dict([ base_power |-> PyFloat(10000), offense |-> PyFloat(6500), defense |-> PyInt(5000),
           pace |-> PyFloat(5000), chaos |-> PyFloat(4500), volatility |-> PyFloat(5500),
           seed |-> HugeInt ])

DEN == <<"D", "E", "N">>

HOR == <<"H", "O", "R">>

\* The configurations checked: well-formed tables, tables without GENERIC,
\* values that are no dict, keys that are not in normalized form, and entries
\* with missing, unconvertible and additional attributes.
ConfigTables ==
    { None,
      List,
      Dict(<<>>),
      Dict((DEN :> DenEntry) @@ (HOR :> HorEntry) @@ (GENERIC :> GenericEntry)),
      Dict((DEN :> DenEntry) @@ (HOR :> HorEntry)),
      Dict((GENERIC :> GenericEntry)),
      Dict((DEN :> DenEntry) @@ (GENERIC :> Text("n/a"))),
      Dict((DEN :> List) @@ (GENERIC :> GenericEntry)),
      Dict((DEN :> None) @@ (HOR :> HorEntry)),
      Dict((<<"d", "e", "n">> :> DenEntry) @@ (GENERIC :> GenericEntry)),
      Dict((DEN :> NoPaceEntry) @@ (GENERIC :> GenericEntry)),
      Dict((DEN :> BadPaceEntry) @@ (GENERIC :> GenericEntry)),
      Dict((DEN :> ExtrasEntry) @@ (GENERIC :> GenericEntry)),
      Dict((DEN :> DenEntry) @@ (GENERIC :> NoPaceEntry)),
      Dict((DEN :> DenEntry) @@ (GENERIC :> BadPaceEntry)),
      Dict((DEN :> NoPaceChaosEntry) @@ (GENERIC :> GenericEntry)),
      Dict((DEN :> BadChaosEntry) @@ (GENERIC :> ExtrasEntry)),
      Dict((DEN :> HugePaceEntry) @@ (GENERIC :> GenericEntry)),
      Dict((DEN :> HugeExtraEntry) @@ (GENERIC :> GenericEntry)) }

ResolverCoreCodes ==
    CoreCodes \cup { <<"D", "e", "n">>, <<"H", "O", "R">>,
                     <<"g", "e", "n", "e", "r", "i", "c">>, GENERIC }

ResolverCodes ==
    { Spaces(l) \o c \o Spaces(r) : l \in 0..MaxPad, r \in 0..MaxPad, c \in ResolverCoreCodes }

InitResolve ==
    /\ wiring = DefaultWiring
    /\ IdleFrame
    /\ snap = None
    /\ TEAM_PROFILES \in ConfigTables /\ team_code = <<>> /\ resolved = None
    /\ NoBaselines

NextResolve == \E code \in ResolverCodes : Resolve(code)

SpecResolve == InitResolve /\ [][NextResolve]_vars

----------------------------------------------------------------------------
(* identity_engine.py, chaos_engine.py, volatility_engine.py (top level):  *)
(* the engines driven by team profiles and baseline sets.  Profile and     *)
(* baseline values are integers in thousandths; a value that is no whole   *)
(* number of thousandths is a fraction [n, d] of thousandths with d > 0.   *)

\* config.MODEL_VERSION; config.py is not part of the sources.
MODEL_VERSION == "MODEL_VERSION"

\* round(x, 3) of the exact value n/d thousandths, ties to the even neighbour.
RoundHalfEven(n, d) ==
    LET q == n \div d
        r == n % d
    IN  IF 2 * r < d THEN q
        ELSE IF 2 * r > d THEN q + 1
        ELSE IF q % 2 = 0 THEN q ELSE q + 1

RECURSIVE GCD(_, _)
GCD(a, b) == IF b = 0 THEN a ELSE GCD(b, a % b)

Abs(n) == IF n < 0 THEN -n ELSE n

\* The fraction n/d, d # 0, in lowest terms with a positive denominator.
Frac(n, d) ==
    LET g == GCD(Abs(n), Abs(d))
    IN  IF d < 0 THEN [n |-> (-n) \div g, d |-> (-d) \div g]
        ELSE [n |-> n \div g, d |-> d \div g]

FracAdd(a, b) == Frac(a.n * b.d + b.n * a.d, a.d * b.d)

\* The error of a baseline set that is no dict or lacks a key.
BaselineError(msg, set_name, key) ==
    [kind |-> "CalculationError", origin |-> "_get_baseline", msg |-> msg,
     detail |-> <<set_name, key>>]

\* Mutant: a baseline that is absent or unconvertible is read as 1.0.
GetBaseline_DefaultsToOne(baselines, set_name, key) ==
    IF baselines.type # "dict" THEN Ok(1000)
    ELSE IF key \notin DOMAIN baselines.items THEN Ok(1000)
    ELSE IF ~Coercible(baselines.items[key]) THEN Ok(1000)
    ELSE Ok(baselines.items[key].milli)

\* _get_baseline: identity_engine.py 133-148, chaos_engine.py 128-143,
\* volatility_engine.py 129-144.
GetBaseline(baselines, set_name, key) ==
    IF baselines.type # "dict"
    THEN Raise(BaselineError("must be a dict in config.py", set_name, key))
    ELSE IF key \notin DOMAIN baselines.items
    THEN Raise(BaselineError("Missing baseline key", set_name, key))
    ELSE CoerceFloat(baselines.items[key], <<set_name, key>>)

\* The baselines an engine pulls, one _get_baseline call after the other: the
\* first call that raises leaves the engine.
ReadBaselines(baselines, set_name, keys) ==
    LET failing == SelectSeq(keys, LAMBDA k : GetBaseline(baselines, set_name, k).raised)
    IN  IF failing # <<>>
        THEN Raise(GetBaseline(baselines, set_name, failing[1]).error)
        ELSE Ok([k \in {keys[i] : i \in 1..Len(keys)} |->
                     GetBaseline(baselines, set_name, k).value])

\* Mutant: the away profile is fetched first.
FetchProfiles_AwayFirst(table, home_code, away_code) ==
    LET home_profile == GetTeamProfile(table, home_code)
        away_profile == GetTeamProfile(table, away_code)
    IN  IF away_profile.raised THEN Raise(away_profile.error)
        ELSE IF home_profile.raised THEN Raise(home_profile.error)
        ELSE Ok([home |-> home_profile.value.items, away |-> away_profile.value.items])

\* Both profiles are fetched, home first, before any baseline is read.
FetchProfiles(table, home_code, away_code) ==
    LET home_profile == GetTeamProfile(table, home_code)
        away_profile == GetTeamProfile(table, away_code)
    IN  IF home_profile.raised THEN Raise(home_profile.error)
        ELSE IF away_profile.raised THEN Raise(away_profile.error)
        ELSE Ok([home |-> home_profile.value.items, away |-> away_profile.value.items])

IdentityBaselineKeys ==
    <<"default_total", "home_edge", "pace_spread_scale", "pace_total_scale",
      "power_spread_scale">>

\* Mutant: the pace adjustment of the spread scales pace_factor itself, not
\* pace_factor - 1.0.
IdentityMath_RawPace(home_profile, away_profile, b) ==
    LET power_diff == home_profile["base_power"] - away_profile["base_power"]
        pace_sum == home_profile["pace"] + away_profile["pace"]
        off_sum == home_profile["offense"] + away_profile["offense"]
        def_sum == home_profile["defense"] + away_profile["defense"]
        pace_spread_adjust == b["pace_spread_scale"] * pace_sum
        base_spread == 2000 * b["home_edge"]
                         + 2 * b["power_spread_scale"] * power_diff
                         + pace_spread_adjust
        pace_total_adjust == b["pace_total_scale"] * (pace_sum - 2000)
        off_def_delta == off_sum - def_sum
        base_total == 4000 * b["default_total"] + 2 * pace_total_adjust
                         + 1000 * off_def_delta
    IN  [ base_spread |-> RoundHalfEven(base_spread, 2000),
          base_total |-> RoundHalfEven(base_total, 4000),
          pace_factor |-> RoundHalfEven(pace_sum, 2),
          power_diff |-> power_diff,
          intermediate |->
              [ power_diff |-> power_diff,
                pace_factor |-> RoundHalfEven(pace_sum, 2),
                off_factor |-> RoundHalfEven(off_sum, 2),
                def_factor |-> RoundHalfEven(def_sum, 2),
                pace_spread_adjust |-> Frac(pace_spread_adjust, 2000),
                pace_total_adjust |-> Frac(pace_total_adjust, 2000),
                off_def_adjust |-> Frac(off_def_delta, 4),
                off_def_delta |-> Frac(off_def_delta, 2) ] ]

\* Mutant: pace_factor is the pace of the home team.
IdentityMath_HomePace(home_profile, away_profile, b) ==
    LET power_diff == home_profile["base_power"] - away_profile["base_power"]
        pace_sum == 2 * home_profile["pace"]
        off_sum == home_profile["offense"] + away_profile["offense"]
        def_sum == home_profile["defense"] + away_profile["defense"]
        pace_spread_adjust == b["pace_spread_scale"] * (pace_sum - 2000)
        base_spread == 2000 * b["home_edge"]
                         + 2 * b["power_spread_scale"] * power_diff
                         + pace_spread_adjust
        pace_total_adjust == b["pace_total_scale"] * (pace_sum - 2000)
        off_def_delta == off_sum - def_sum
        base_total == 4000 * b["default_total"] + 2 * pace_total_adjust
                         + 1000 * off_def_delta
    IN  [ base_spread |-> RoundHalfEven(base_spread, 2000),
          base_total |-> RoundHalfEven(base_total, 4000),
          pace_factor |-> RoundHalfEven(pace_sum, 2),
          power_diff |-> power_diff,
          intermediate |->
              [ power_diff |-> power_diff,
                pace_factor |-> RoundHalfEven(pace_sum, 2),
                off_factor |-> RoundHalfEven(off_sum, 2),
                def_factor |-> RoundHalfEven(def_sum, 2),
                pace_spread_adjust |-> Frac(pace_spread_adjust, 2000),
                pace_total_adjust |-> Frac(pace_total_adjust, 2000),
                off_def_adjust |-> Frac(off_def_delta, 4),
                off_def_delta |-> Frac(off_def_delta, 2) ] ]

\* Lines 184-217 of identity_engine.py.  base_spread is a fraction over 2000,
\* base_total a fraction over 4000.
IdentityMath(home_profile, away_profile, b) ==
    LET power_diff == home_profile["base_power"] - away_profile["base_power"]
        pace_sum == home_profile["pace"] + away_profile["pace"]
        off_sum == home_profile["offense"] + away_profile["offense"]
        def_sum == home_profile["defense"] + away_profile["defense"]
        pace_spread_adjust == b["pace_spread_scale"] * (pace_sum - 2000)
        base_spread == 2000 * b["home_edge"]
                         + 2 * b["power_spread_scale"] * power_diff
                         + pace_spread_adjust
        pace_total_adjust == b["pace_total_scale"] * (pace_sum - 2000)
        off_def_delta == off_sum - def_sum
        base_total == 4000 * b["default_total"] + 2 * pace_total_adjust
                         + 1000 * off_def_delta
    IN  [ base_spread |-> RoundHalfEven(base_spread, 2000),
          base_total |-> RoundHalfEven(base_total, 4000),
          pace_factor |-> RoundHalfEven(pace_sum, 2),
          power_diff |-> power_diff,
          intermediate |->
              [ power_diff |-> power_diff,
                pace_factor |-> RoundHalfEven(pace_sum, 2),
                off_factor |-> RoundHalfEven(off_sum, 2),
                def_factor |-> RoundHalfEven(def_sum, 2),
                pace_spread_adjust |-> Frac(pace_spread_adjust, 2000),
                pace_total_adjust |-> Frac(pace_total_adjust, 2000),
                off_def_adjust |-> Frac(off_def_delta, 4),
                off_def_delta |-> Frac(off_def_delta, 2) ] ]

\* IdentityEngine.compute_identity, lines 150-251.
ComputeIdentity(table, baselines, home, away) ==
    LET home_code == StripUpper(home)
        away_code == StripUpper(away)
        profiles == FetchProfiles(table, home_code, away_code)
        b == ReadBaselines(baselines, "SPREAD_TOTAL_BASELINES", IdentityBaselineKeys)
    IN  IF profiles.raised THEN Raise(profiles.error)
        ELSE IF b.raised THEN Raise(b.error)
        ELSE LET m == IdentityMath(profiles.value.home, profiles.value.away, b.value)
             IN  Ok([ type |-> "dict",
                      engine_version |-> MODEL_VERSION,
                      home_team |-> home_code,
                      away_team |-> away_code,
                      base_spread |-> m.base_spread,
                      base_total |-> m.base_total,
                      pace_factor |-> m.pace_factor,
                      power_diff |-> m.power_diff,
                      notes |-> "Identity Engine v3.4 base matchup identity.",
                      debug |-> [ home_profile |-> profiles.value.home,
                                  away_profile |-> profiles.value.away,
                                  baselines |-> b.value,
                                  intermediate |-> m.intermediate ] ])

ChaosBaselineKeys ==
    <<"neutral_chaos", "high_chaos_threshold", "low_chaos_threshold",
      "home_chaos_weight", "away_chaos_weight", "volatility_weight", "pace_weight">>

\* Mutant: the flag is HIGH only strictly above the high threshold.
ChaosFlag_StrictHigh(chaos_score, high_threshold, low_threshold) ==
    IF chaos_score.n > high_threshold * chaos_score.d THEN "HIGH"
    ELSE IF chaos_score.n <= low_threshold * chaos_score.d THEN "LOW"
    ELSE "MEDIUM"

\* Lines 203-209 of chaos_engine.py, on the score before it is rounded.
ChaosFlag(chaos_score, high_threshold, low_threshold) ==
    IF chaos_score.n >= high_threshold * chaos_score.d THEN "HIGH"
    ELSE IF chaos_score.n <= low_threshold * chaos_score.d THEN "LOW"
    ELSE "MEDIUM"

\* Mutant: the score is clamped into [0, 10].
ChaosScore_Clamped(home_profile, away_profile, b) ==
    LET weight_sum == b["home_chaos_weight"] + b["away_chaos_weight"]
        total_weight == IF weight_sum # 0 THEN weight_sum ELSE 1000
        raw_chaos == home_profile["chaos"] * b["home_chaos_weight"]
                        + away_profile["chaos"] * b["away_chaos_weight"]
        volatility_component ==
            b["volatility_weight"] * (home_profile["volatility"] + away_profile["volatility"] - 10000)
        pace_component ==
            b["pace_weight"] * (home_profile["pace"] + away_profile["pace"] - 10000)
        score == FracAdd(FracAdd(Frac(b["neutral_chaos"] - 5000, 1),
                                 Frac(raw_chaos, total_weight)),
                         Frac(volatility_component + pace_component, 2000))
    IN  IF score.n < 0 THEN Frac(0, 1)
        ELSE IF score.n > 10000 * score.d THEN Frac(10000, 1)
        ELSE score

\* Mutant: the pace component is taken from the home team alone.
ChaosScore_HomePace(home_profile, away_profile, b) ==
    LET weight_sum == b["home_chaos_weight"] + b["away_chaos_weight"]
        total_weight == IF weight_sum # 0 THEN weight_sum ELSE 1000
        raw_chaos == home_profile["chaos"] * b["home_chaos_weight"]
                        + away_profile["chaos"] * b["away_chaos_weight"]
        volatility_component ==
            b["volatility_weight"] * (home_profile["volatility"] + away_profile["volatility"] - 10000)
        pace_component == b["pace_weight"] * (2 * home_profile["pace"] - 10000)
    IN  FracAdd(FracAdd(Frac(b["neutral_chaos"] - 5000, 1), Frac(raw_chaos, total_weight)),
                Frac(volatility_component + pace_component, 2000))

\* Lines 186-201 of chaos_engine.py: the score as a fraction of thousandths.
ChaosScore(home_profile, away_profile, b) ==
    LET weight_sum == b["home_chaos_weight"] + b["away_chaos_weight"]
        total_weight == IF weight_sum # 0 THEN weight_sum ELSE 1000
        raw_chaos == home_profile["chaos"] * b["home_chaos_weight"]
                        + away_profile["chaos"] * b["away_chaos_weight"]
        volatility_component ==
            b["volatility_weight"] * (home_profile["volatility"] + away_profile["volatility"] - 10000)
        pace_component ==
            b["pace_weight"] * (home_profile["pace"] + away_profile["pace"] - 10000)
    IN  FracAdd(FracAdd(Frac(b["neutral_chaos"] - 5000, 1), Frac(raw_chaos, total_weight)),
                Frac(volatility_component + pace_component, 2000))

\* The rounded intermediates of lines 212-217 and 236-249.
ChaosIntermediate(home_profile, away_profile, b) ==
    LET weight_sum == b["home_chaos_weight"] + b["away_chaos_weight"]
        total_weight == IF weight_sum # 0 THEN weight_sum ELSE 1000
        raw_chaos == Frac(home_profile["chaos"] * b["home_chaos_weight"]
                             + away_profile["chaos"] * b["away_chaos_weight"],
                          total_weight)
        score == ChaosScore(home_profile, away_profile, b)
    IN  [ home_chaos |-> home_profile["chaos"],
          away_chaos |-> away_profile["chaos"],
          home_volatility |-> home_profile["volatility"],
          away_volatility |-> away_profile["volatility"],
          home_pace |-> home_profile["pace"],
          away_pace |-> away_profile["pace"],
          raw_chaos |-> RoundHalfEven(raw_chaos.n, raw_chaos.d),
          avg_volatility |->
              RoundHalfEven(home_profile["volatility"] + away_profile["volatility"], 2),
          avg_pace |-> RoundHalfEven(home_profile["pace"] + away_profile["pace"], 2),
          volatility_component |->
              RoundHalfEven(b["volatility_weight"]
                               * (home_profile["volatility"] + away_profile["volatility"] - 10000),
                            2000),
          pace_component |->
              RoundHalfEven(b["pace_weight"]
                               * (home_profile["pace"] + away_profile["pace"] - 10000),
                            2000),
          chaos_score |-> RoundHalfEven(score.n, score.d) ]

\* ChaosEngine.compute_chaos, lines 145-255.
ComputeChaos(table, baselines, home, away) ==
    LET home_code == StripUpper(home)
        away_code == StripUpper(away)
        profiles == FetchProfiles(table, home_code, away_code)
        b == ReadBaselines(baselines, "CHAOS_BASELINES", ChaosBaselineKeys)
    IN  IF profiles.raised THEN Raise(profiles.error)
        ELSE IF b.raised THEN Raise(b.error)
        ELSE LET chaos_score == ChaosScore(profiles.value.home, profiles.value.away, b.value)
             IN  Ok([ type |-> "dict",
                      engine_version |-> MODEL_VERSION,
                      home_team |-> home_code,
                      away_team |-> away_code,
                      chaos_score |-> RoundHalfEven(chaos_score.n, chaos_score.d),
                      chaos_flag |-> ChaosFlag(chaos_score, b.value["high_chaos_threshold"],
                                               b.value["low_chaos_threshold"]),
                      notes |-> "Chaos Engine v3.4 matchup chaos identity.",
                      debug |-> [ home_profile |-> profiles.value.home,
                                  away_profile |-> profiles.value.away,
                                  baselines |-> b.value,
                                  intermediate |->
                                      ChaosIntermediate(profiles.value.home,
                                                        profiles.value.away, b.value) ] ])

VolatilityBaselineKeys ==
    <<"neutral_volatility", "high_volatility_threshold", "low_volatility_threshold",
      "home_volatility_weight", "away_volatility_weight", "chaos_weight", "pace_weight">>

\* Lines 208-214 of volatility_engine.py, on the score before it is rounded.
VolatilityFlag(volatility_score, high_threshold, low_threshold) ==
    IF volatility_score.n >= high_threshold * volatility_score.d THEN "HIGH"
    ELSE IF volatility_score.n <= low_threshold * volatility_score.d THEN "LOW"
    ELSE "MEDIUM"

\* Mutant: raw_volatility is the plain mean, whatever the weights.
VolatilityScore_PlainMean(home_profile, away_profile, b) ==
    LET raw_volatility == home_profile["volatility"] + away_profile["volatility"]
        chaos_component ==
            b["chaos_weight"] * (home_profile["chaos"] + away_profile["chaos"] - 10000)
        pace_component ==
            b["pace_weight"] * (home_profile["pace"] + away_profile["pace"] - 10000)
    IN  FracAdd(FracAdd(Frac(b["neutral_volatility"] - 5000, 1), Frac(raw_volatility, 2)),
                Frac(chaos_component + pace_component, 2000))

\* Lines 187-206 of volatility_engine.py: the score as a fraction of thousandths.
VolatilityScore(home_profile, away_profile, b) ==
    LET weight_sum == b["home_volatility_weight"] + b["away_volatility_weight"]
        total_weight == IF weight_sum # 0 THEN weight_sum ELSE 1000
        raw_volatility == home_profile["volatility"] * b["home_volatility_weight"]
                             + away_profile["volatility"] * b["away_volatility_weight"]
        chaos_component ==
            b["chaos_weight"] * (home_profile["chaos"] + away_profile["chaos"] - 10000)
        pace_component ==
            b["pace_weight"] * (home_profile["pace"] + away_profile["pace"] - 10000)
    IN  FracAdd(FracAdd(Frac(b["neutral_volatility"] - 5000, 1),
                        Frac(raw_volatility, total_weight)),
                Frac(chaos_component + pace_component, 2000))

\* The rounded intermediates of lines 217-223 and 244-258.
VolatilityIntermediate(home_profile, away_profile, b) ==
    LET weight_sum == b["home_volatility_weight"] + b["away_volatility_weight"]
        total_weight == IF weight_sum # 0 THEN weight_sum ELSE 1000
        raw_volatility == Frac(home_profile["volatility"] * b["home_volatility_weight"]
                                  + away_profile["volatility"] * b["away_volatility_weight"],
                               total_weight)
        base_component == FracAdd(raw_volatility, Frac(-5000, 1))
        score == VolatilityScore(home_profile, away_profile, b)
    IN  [ home_volatility |-> home_profile["volatility"],
          away_volatility |-> away_profile["volatility"],
          home_chaos |-> home_profile["chaos"],
          away_chaos |-> away_profile["chaos"],
          home_pace |-> home_profile["pace"],
          away_pace |-> away_profile["pace"],
          raw_volatility |-> RoundHalfEven(raw_volatility.n, raw_volatility.d),
          avg_chaos |-> RoundHalfEven(home_profile["chaos"] + away_profile["chaos"], 2),
          avg_pace |-> RoundHalfEven(home_profile["pace"] + away_profile["pace"], 2),
          base_component |-> RoundHalfEven(base_component.n, base_component.d),
          chaos_component |->
              RoundHalfEven(b["chaos_weight"]
                               * (home_profile["chaos"] + away_profile["chaos"] - 10000),
                            2000),
          pace_component |->
              RoundHalfEven(b["pace_weight"]
                               * (home_profile["pace"] + away_profile["pace"] - 10000),
                            2000),
          volatility_score |-> RoundHalfEven(score.n, score.d) ]

\* VolatilityEngine.compute_volatility, lines 146-263.
ComputeVolatility(table, baselines, home, away) ==
    LET home_code == StripUpper(home)
        away_code == StripUpper(away)
        profiles == FetchProfiles(table, home_code, away_code)
        b == ReadBaselines(baselines, "VOLATILITY_BASELINES", VolatilityBaselineKeys)
    IN  IF profiles.raised THEN Raise(profiles.error)
        ELSE IF b.raised THEN Raise(b.error)
        ELSE LET volatility_score ==
                     VolatilityScore(profiles.value.home, profiles.value.away, b.value)
             IN  Ok([ type |-> "dict",
                      engine_version |-> MODEL_VERSION,
                      home_team |-> home_code,
                      away_team |-> away_code,
                      volatility_score |-> RoundHalfEven(volatility_score.n, volatility_score.d),
                      volatility_flag |->
                          VolatilityFlag(volatility_score,
                                         b.value["high_volatility_threshold"],
                                         b.value["low_volatility_threshold"]),
                      notes |-> "Volatility Engine v3.4 matchup volatility identity.",
                      debug |-> [ home_profile |-> profiles.value.home,
                                  away_profile |-> profiles.value.away,
                                  baselines |-> b.value,
                                  intermediate |->
                                      VolatilityIntermediate(profiles.value.home,
                                                             profiles.value.away, b.value) ] ])

\* compute_identity_matchup, line 254.
ComputeIdentityMatchup(home, away) ==
    /\ matchup = None
    /\ matchup' = [type |-> "call", engine |-> "identity", home |-> home, away |-> away]
    /\ call_outcome' = ComputeIdentity(TEAM_PROFILES, SPREAD_TOTAL_BASELINES, home, away)
    /\ UNCHANGED << SPREAD_TOTAL_BASELINES, CHAOS_BASELINES, VOLATILITY_BASELINES >>
    /\ UNCHANGED << orchVars, snap, prediction, resolverVars >>

\* compute_chaos_matchup, chaos_engine.py line 258.
ComputeChaosMatchup(home, away) ==
    /\ matchup = None
    /\ matchup' = [type |-> "call", engine |-> "chaos", home |-> home, away |-> away]
    /\ call_outcome' = ComputeChaos(TEAM_PROFILES, CHAOS_BASELINES, home, away)
    /\ UNCHANGED << SPREAD_TOTAL_BASELINES, CHAOS_BASELINES, VOLATILITY_BASELINES >>
    /\ UNCHANGED << orchVars, snap, prediction, resolverVars >>

\* compute_volatility_matchup, volatility_engine.py line 265.
ComputeVolatilityMatchup(home, away) ==
    /\ matchup = None
    /\ matchup' = [type |-> "call", engine |-> "volatility", home |-> home, away |-> away]
    /\ call_outcome' = ComputeVolatility(TEAM_PROFILES, VOLATILITY_BASELINES, home, away)
    /\ UNCHANGED << SPREAD_TOTAL_BASELINES, CHAOS_BASELINES, VOLATILITY_BASELINES >>
    /\ UNCHANGED << orchVars, snap, prediction, resolverVars >>

\* pist01beat.identity_engine.IdentityEngine().compute_identity, called directly.
HashComputeIdentity(home, away) ==
    /\ matchup = None
    /\ matchup' = [type |-> "call", engine |-> "hash_identity", home |-> home, away |-> away]
    /\ call_outcome' = Ok(HashIdentity(home, away))
    /\ UNCHANGED << SPREAD_TOTAL_BASELINES, CHAOS_BASELINES, VOLATILITY_BASELINES >>
    /\ UNCHANGED << orchVars, snap, prediction, resolverVars >>

\* The caller is done with the result and free to call again.
Discard ==
    /\ matchup # None
    /\ matchup' = None /\ call_outcome' = None
    /\ UNCHANGED << SPREAD_TOTAL_BASELINES, CHAOS_BASELINES, VOLATILITY_BASELINES >>
    /\ UNCHANGED << orchVars, snap, prediction, resolverVars >>

BOS == <<"B", "O", "S">>

BosEntry ==
    Dict([ base_power |-> PyFloat(7300), offense |-> PyFloat(5800), defense |-> PyFloat(4900),
           pace |-> PyFloat(5250), chaos |-> PyFloat(4750), volatility |-> PyFloat(6125) ])

LeagueTable ==
    Dict((DEN :> DenEntry) @@ (HOR :> HorEntry) @@ (BOS :> BosEntry)
            @@ (GENERIC :> GenericEntry))

\* Tables with a defect behind DEN, behind HOR, and a table that is no dict.
DefectTables ==
    { Dict((DEN :> NoPaceEntry) @@ (HOR :> HorEntry) @@ (GENERIC :> GenericEntry)),
      Dict((DEN :> DenEntry) @@ (HOR :> BadChaosEntry) @@ (GENERIC :> GenericEntry)),
      Dict((DEN :> DenEntry) @@ (HOR :> HorEntry)),
      None }

IdentityBaselines(default_total, home_edge, pace_spread_scale, pace_total_scale, power_spread_scale) ==
    [ default_total |-> PyFloat(default_total), home_edge |-> PyFloat(home_edge),
      pace_spread_scale |-> PyFloat(pace_spread_scale),
      pace_total_scale |-> PyFloat(pace_total_scale),
      power_spread_scale |-> PyFloat(power_spread_scale) ]

\* home_edge 2.0, power_spread_scale 0.1, pace_spread_scale 1.0,
\* default_total 220.0, pace_total_scale 2.0.
SpreadTotalDefault == Dict(IdentityBaselines(220000, 2000, 1000, 2000, 100))

ChaosBaselines(neutral, high, low, home_weight, away_weight, volatility_weight, pace_weight) ==
    [ neutral_chaos |-> PyFloat(neutral), high_chaos_threshold |-> PyFloat(high),
      low_chaos_threshold |-> PyFloat(low), home_chaos_weight |-> PyFloat(home_weight),
      away_chaos_weight |-> PyFloat(away_weight),
      volatility_weight |-> PyFloat(volatility_weight), pace_weight |-> PyFloat(pace_weight) ]

ChaosDefault == Dict(ChaosBaselines(5000, 6500, 3500, 1000, 1000, 500, 250))

VolatilityBaselines(neutral, high, low, home_weight, away_weight, chaos_weight, pace_weight) ==
    [ neutral_volatility |-> PyFloat(neutral), high_volatility_threshold |-> PyFloat(high),
      low_volatility_threshold |-> PyFloat(low),
      home_volatility_weight |-> PyFloat(home_weight),
      away_volatility_weight |-> PyFloat(away_weight),
      chaos_weight |-> PyFloat(chaos_weight), pace_weight |-> PyFloat(pace_weight) ]

VolatilityDefault == Dict(VolatilityBaselines(5000, 6500, 3500, 1000, 1000, 500, 250))

\* A baseline set that is no dict, lacks keys, or holds values of other types.
Defective(good, absent, text) ==
    { None, List,
      Dict([k \in DOMAIN good.items \ {absent} |-> good.items[k]]),
      Dict([k \in DOMAIN good.items \ {absent, text} |-> good.items[k]]),
      Dict([good.items EXCEPT ![text] = Text("n/a")]),
      Dict([good.items EXCEPT ![text] = None]),
      Dict([good.items EXCEPT ![absent] = List, ![text] = Text("n/a")]),
      Dict([good.items EXCEPT ![text] = NumStr(good.items[text].milli)]),
      Dict([good.items EXCEPT ![text] = PyBool(1000)]),
      Dict([good.items EXCEPT ![text] = HugeInt]) }

\* The pairs of home and away weight tried: equal, unequal, cancelling, zero.
\* With these weights and the entries above no score is a decimal tie that has
\* no exact binary64 form, where round(x, 3) depends on the float's last bit.
WeightPairs ==
    { <<1000, 1000>>, <<500, 500>>, <<750, 250>>, <<0, 1000>>, <<0, 0>>, <<1000, -1000>> }

SpreadTotalSets ==
    { Dict(IdentityBaselines(220000, e, ps, pt, pw)) :
         e \in {2000, -1500}, ps \in {1000, 1001}, pt \in {2000, 1333}, pw \in {100, 333} }
    \cup Defective(SpreadTotalDefault, "home_edge", "pace_total_scale")

\* 5.125 is the score of DEN against HOR under the default weights.
\* The last two sets have thresholds with three decimals next to a score with
\* more: DEN at home against BOS scores 4.8805625 under weights 0.75 and 0.25
\* and 4.9430625 under equal weights, with volatility_weight 0.353.
ChaosSets ==
    { Dict(ChaosBaselines(5000, h, l, w[1], w[2], v, 250)) :
         h \in {6500, 5125}, l \in {3500, 5125, 7000}, w \in WeightPairs, v \in {500, 353} }
    \cup Defective(ChaosDefault, "low_chaos_threshold", "pace_weight")
    \cup { Dict(ChaosBaselines(5000, 4881, 3500, 750, 250, 353, 250)),
           Dict(ChaosBaselines(5000, 6500, 4943, 1000, 1000, 353, 250)) }

\* 4.875 is the score of DEN against HOR under the default weights; DEN
\* against BOS scores 5.711375 under equal weights and chaos_weight 0.353.
VolatilitySets ==
    { Dict(VolatilityBaselines(5000, h, l, w[1], w[2], c, 250)) :
         h \in {6500, 4875}, l \in {3500, 4875, 7000}, w \in WeightPairs, c \in {500, 353} }
    \cup Defective(VolatilityDefault, "neutral_volatility", "chaos_weight")
    \cup { Dict(VolatilityBaselines(5000, 6500, 5711, 1000, 1000, 353, 250)) }

\* Tables with two defective entries: a missing attribute behind DEN and an
\* unconvertible value behind HOR; no entry for DEN, no GENERIC and a list
\* behind HOR; an entry behind BOS that lacks attributes and holds an
\* unconvertible one, next to a list behind DEN.
MultiDefectTables ==
    { Dict((DEN :> NoPaceEntry) @@ (HOR :> BadChaosEntry) @@ (BOS :> BosEntry)
              @@ (GENERIC :> GenericEntry)),
      Dict((HOR :> List) @@ (BOS :> BosEntry)),
      Dict((DEN :> List) @@ (HOR :> HorEntry) @@ (BOS :> NoPaceChaosEntry)
              @@ (GENERIC :> GenericEntry)) }

\* config.py with defects in several places: in two profiles, in a profile
\* and in every baseline set, in every baseline set alone.
MultiDefectConfigs ==
    { [profiles |-> t, spread |-> SpreadTotalDefault, chaos |-> ChaosDefault,
       volatility |-> VolatilityDefault] : t \in MultiDefectTables }
    \cup { [profiles |-> t,
            spread |-> Dict([k \in DOMAIN SpreadTotalDefault.items \ {"home_edge"} |->
                                SpreadTotalDefault.items[k]]),
            chaos |-> None,
            volatility |-> Dict([VolatilityDefault.items EXCEPT
                                    !["chaos_weight"] = Text("n/a")])] :
              t \in MultiDefectTables \cup {LeagueTable} }

\* config.py as loaded: one of its four tables departs from the default, or
\* several defects coexist.
Configs ==
    { [profiles |-> t, spread |-> SpreadTotalDefault, chaos |-> ChaosDefault,
       volatility |-> VolatilityDefault] : t \in {LeagueTable} \cup DefectTables }
    \cup { [profiles |-> LeagueTable, spread |-> b, chaos |-> ChaosDefault,
            volatility |-> VolatilityDefault] : b \in SpreadTotalSets }
    \cup { [profiles |-> LeagueTable, spread |-> SpreadTotalDefault, chaos |-> b,
            volatility |-> VolatilityDefault] : b \in ChaosSets }
    \cup { [profiles |-> LeagueTable, spread |-> SpreadTotalDefault, chaos |-> ChaosDefault,
            volatility |-> b] : b \in VolatilitySets }
    \cup MultiDefectConfigs

\* "den", " HOR ", "Bos" and the empty code, which resolves to GENERIC.
EngineCodes ==
    { <<"d", "e", "n">>, <<" ", "H", "O", "R", " ">>, <<"B", "o", "s">>, <<>> }

InitEngines ==
    /\ wiring = DefaultWiring
    /\ IdleFrame
    /\ snap = None
    /\ team_code = <<>> /\ resolved = None
    /\ matchup = None /\ call_outcome = None
    /\ \E c \in Configs :
          /\ TEAM_PROFILES = c.profiles
          /\ SPREAD_TOTAL_BASELINES = c.spread
          /\ CHAOS_BASELINES = c.chaos
          /\ VOLATILITY_BASELINES = c.volatility

NextEngines ==
    \/ \E home \in EngineCodes, away \in EngineCodes :
          \/ ComputeIdentityMatchup(home, away)
          \/ ComputeChaosMatchup(home, away)
          \/ ComputeVolatilityMatchup(home, away)
          \/ HashComputeIdentity(home, away)
    \/ Discard

SpecEngines == InitEngines /\ [][NextEngines]_vars

----------------------------------------------------------------------------
(* pist01beat/spread_engine.py: SpreadEngine.  An engine result is a       *)
(* record whose type field is the name of its Python type and whose other  *)
(* fields are its attributes (a dataclass or other object) or its keys (a  *)
(* dict); a number is passed through as the object it is.                  *)

SpreadEngineVersion == "3.4-spread-minimal"

\* getattr(obj, name, None): a dict has no attribute named after its keys.
GetAttr(obj, name) ==
    IF obj.type # "dict" /\ name \in DOMAIN obj THEN obj[name] ELSE None

\* Lines 63-70: the attribute, and for a dict without it the key.
IdentityField(identity, name) ==
    LET attr == GetAttr(identity, name)
    IN  IF attr = None /\ identity.type = "dict"
        THEN (IF name \in DOMAIN identity THEN identity[name] ELSE None)
        ELSE attr

SpreadLines(home_team_, away_team_, base_spread, base_total, identity, chaos, volatility) ==
    [ type |-> "SpreadLines",
      engine |-> "spread",
      engine_version |-> SpreadEngineVersion,
      home_team |-> home_team_,
      away_team |-> away_team_,
      model_spread |-> base_spread,
      model_total |-> base_total,
      debug |-> [ identity_type |-> identity.type,
                  chaos_type |-> chaos.type,
                  volatility_type |-> volatility.type ] ]

\* Mutant: a field is read with "or", so that 0 counts as absent.
ComputeLines_FalsyIsMissing(home_team_, away_team_, identity, chaos, volatility) ==
    LET base_spread == IdentityField(identity, "base_spread")
        base_total == IdentityField(identity, "base_total")
        Falsy(v) == v = None \/ ("milli" \in DOMAIN v /\ v.milli = 0)
    IN  IF Falsy(base_spread) \/ Falsy(base_total)
        THEN Raise([kind |-> "ValueError", origin |-> "compute_lines"])
        ELSE Ok(SpreadLines(home_team_, away_team_, base_spread, base_total,
                            identity, chaos, volatility))

\* Mutant: a missing field is read as 0.0.
ComputeLines_ZeroForMissing(home_team_, away_team_, identity, chaos, volatility) ==
    LET base_spread == IdentityField(identity, "base_spread")
        base_total == IdentityField(identity, "base_total")
        zero == [type |-> "float", milli |-> 0]
    IN  Ok(SpreadLines(home_team_, away_team_,
                       IF base_spread = None THEN zero ELSE base_spread,
                       IF base_total = None THEN zero ELSE base_total,
                       identity, chaos, volatility))

\* Mutant: the codes are normalised before they are recorded.
ComputeLines_Normalizes(home_team_, away_team_, identity, chaos, volatility) ==
    LET base_spread == IdentityField(identity, "base_spread")
        base_total == IdentityField(identity, "base_total")
    IN  IF base_spread = None \/ base_total = None
        THEN Raise([kind |-> "ValueError", origin |-> "compute_lines"])
        ELSE Ok(SpreadLines(StripUpper(home_team_), StripUpper(away_team_), base_spread,
                            base_total, identity, chaos, volatility))

\* SpreadEngine.compute_lines, lines 53-92.
ComputeLines(home_team_, away_team_, identity, chaos, volatility) ==
    LET base_spread == IdentityField(identity, "base_spread")
        base_total == IdentityField(identity, "base_total")
    IN  IF base_spread = None \/ base_total = None
        THEN Raise([kind |-> "ValueError", origin |-> "compute_lines"])
        ELSE Ok(SpreadLines(home_team_, away_team_, base_spread, base_total,
                            identity, chaos, volatility))

\* SpreadEngine().compute_lines(...), called directly.  No statement of the
\* method assigns to an attribute or a key of an argument, so the caller
\* holds the three objects as it passed them.
SpreadComputeLines(home, away, identity, chaos, volatility) ==
    /\ matchup = None
    /\ matchup' = [ type |-> "call", engine |-> "spread", home |-> home, away |-> away,
                    identity |-> identity, chaos |-> chaos, volatility |-> volatility,
                    held |-> [ identity |-> identity, chaos |-> chaos,
                               volatility |-> volatility ] ]
    /\ call_outcome' = ComputeLines(home, away, identity, chaos, volatility)
    /\ UNCHANGED << SPREAD_TOTAL_BASELINES, CHAOS_BASELINES, VOLATILITY_BASELINES >>
    /\ UNCHANGED << orchVars, snap, prediction, resolverVars >>

----------------------------------------------------------------------------
(* The engines called directly, each on an instance constructed for the    *)
(* call: the hash-derived chaos and volatility engines with constructor    *)
(* arguments, the spread engine, and the configuration-driven engines      *)
(* under the league table and the default baselines.                       *)

\* ChaosEngine(**p).compute_chaos(home, away, notes)
HashComputeChaos(p, home, away, notes) ==
    /\ matchup = None
    /\ matchup' = [ type |-> "call", engine |-> "hash_chaos", home |-> home, away |-> away,
                    params |-> p, notes |-> notes ]
    /\ call_outcome' = Ok(HashChaos(p, home, away, notes))
    /\ UNCHANGED << SPREAD_TOTAL_BASELINES, CHAOS_BASELINES, VOLATILITY_BASELINES >>
    /\ UNCHANGED << orchVars, snap, prediction, resolverVars >>

\* VolatilityEngine(**p).compute_volatility(home, away)
HashComputeVolatility(p, home, away) ==
    /\ matchup = None
    /\ matchup' = [ type |-> "call", engine |-> "hash_volatility", home |-> home,
                    away |-> away, params |-> p ]
    /\ call_outcome' = Ok(HashVolatility(p, home, away))
    /\ UNCHANGED << SPREAD_TOTAL_BASELINES, CHAOS_BASELINES, VOLATILITY_BASELINES >>
    /\ UNCHANGED << orchVars, snap, prediction, resolverVars >>

\* Constructor arguments of the chaos engine, in hundredths: the defaults; a
\* window wider than [0, 1]; a window whose floor is a threshold; a window
\* near 1 that the note boost leaves; thresholds at 0 and 1; thresholds that
\* coincide; thresholds in reverse order.
ChaosParamSets ==
    { ChaosDefaults,
      [ChaosDefaults EXCEPT !.base_floor = -50, !.base_ceiling = 150],
      [ChaosDefaults EXCEPT !.base_floor = -50, !.base_ceiling = 150,
                            !.low_threshold = 0, !.high_threshold = 100],
      [ChaosDefaults EXCEPT !.base_floor = 35],
      [ChaosDefaults EXCEPT !.base_floor = 65],
      [ChaosDefaults EXCEPT !.base_floor = 90, !.base_ceiling = 100,
                            !.note_boost_per_tag = 25, !.max_note_boost = 75],
      [ChaosDefaults EXCEPT !.base_floor = 50, !.low_threshold = 50, !.high_threshold = 50],
      [ChaosDefaults EXCEPT !.low_threshold = 65, !.high_threshold = 35] }

\* Constructor arguments of the volatility engine, in hundredths.
VolatilityParamSets ==
    { VolatilityDefaults,
      [VolatilityDefaults EXCEPT !.base_floor = -50, !.base_ceiling = 150],
      [VolatilityDefaults EXCEPT !.base_floor = 25],
      [VolatilityDefaults EXCEPT !.base_floor = 50],
      [VolatilityDefaults EXCEPT !.base_floor = 50, !.base_ceiling = 30],
      [VolatilityDefaults EXCEPT !.low_threshold = 50, !.high_threshold = 25] }

\* An identity result that provides both fields: a dataclass instance, a dict,
\* another object with attributes.
FullIdentities ==
    { [type |-> t, base_spread |-> bs, base_total |-> bt] :
         t \in {"IdentityResult", "dict", "SimpleNamespace"},
         bs \in {PyFloat(6400), PyFloat(0)}, bt \in {PyFloat(228250), PyFloat(0)} }

\* Those, and identity results that lack a field, or hold None in it, and
\* arguments that are no result at all.
SpreadIdentities ==
    FullIdentities
    \cup { [type |-> t, base_spread |-> PyFloat(6400)] : t \in {"dict", "SimpleNamespace"} }
    \cup { [type |-> t, base_total |-> PyFloat(228250)] : t \in {"dict", "SimpleNamespace"} }
    \cup { [type |-> t, base_spread |-> None, base_total |-> PyFloat(0)] :
              t \in {"dict", "IdentityResult"} }
    \cup { [type |-> "dict"], [type |-> "dict", home_identity_score |-> PyFloat(1000)],
           None, List }

\* What a caller may pass as chaos or volatility: nothing, a dict, a result.
SpreadContexts ==
    { None,
      [type |-> "dict", chaos_score |-> PyFloat(900), volatility_score |-> PyFloat(900)],
      [type |-> "ChaosResult", chaos_score |-> PyFloat(100)] }

InitDirect ==
    /\ wiring = DefaultWiring
    /\ IdleFrame
    /\ snap = None
    /\ team_code = <<>> /\ resolved = None
    /\ matchup = None /\ call_outcome = None
    /\ TEAM_PROFILES = LeagueTable
    /\ SPREAD_TOTAL_BASELINES = SpreadTotalDefault
    /\ CHAOS_BASELINES = ChaosDefault
    /\ VOLATILITY_BASELINES = VolatilityDefault

NextDirect ==
    \/ \E home \in EngineCodes, away \in EngineCodes :
          \/ \E p \in ChaosParamSets, n \in NotesValues : HashComputeChaos(p, home, away, n)
          \/ \E p \in VolatilityParamSets : HashComputeVolatility(p, home, away)
          \/ \E i \in SpreadIdentities, c \in SpreadContexts, v \in SpreadContexts :
                SpreadComputeLines(home, away, i, c, v)
          \/ HashComputeIdentity(home, away)
          \/ ComputeIdentityMatchup(home, away)
          \/ ComputeChaosMatchup(home, away)
          \/ ComputeVolatilityMatchup(home, away)
    \/ Discard

SpecDirect == InitDirect /\ [][NextDirect]_vars

----------------------------------------------------------------------------
(* Claims *)

Blank(code) == \A i \in 1..Len(code) : code[i] = " "

DegenerateMatchup(h, a) ==
    \/ Blank(h)
    \/ Blank(a)
    \/ StripUpper(h) = StripUpper(a)

PastValidation == pc \in {"identity", "chaos", "volatility", "bundle", "returned", "raised"}

\* C1: once validation has run, the call has failed at validation with the
\* validation error (ValueError in the code, raised nowhere else in the call),
\* with no state returned, exactly when a code is blank or the two trimmed,
\* upper-cased codes are equal.
C1_RejectsExactlyDegenerateMatchups ==
    PastValidation =>
        IF DegenerateMatchup(home_arg, away_arg)
        THEN /\ pc = "raised"
             /\ err.kind = "ValueError" /\ err.origin = "validate"
             /\ integrated_state = None
        ELSE err.origin # "validate"

C1_Witness ==
    /\ pc = "raised" /\ err.origin = "validate"
    /\ home_arg = <<"d", "e", "n">>
    /\ away_arg = <<" ", "D", "E", "N", " ">>

\* C2: a returned run has invoked Identity, Chaos, Volatility and Spread,
\* once each and in that order.
C2_FourEnginesInOrder ==
    pc = "returned" => calls = <<"identity", "chaos", "volatility", "spread">>

\* C3: a returned state holds the orchestrator version, the normalized codes,
\* the four engine results as returned, and the type of each in its manifest.
C3_StateHoldsFourResults ==
    pc = "returned" =>
        /\ integrated_state.engine_version = IntegrationEngineVersion
        /\ integrated_state.home_team = StripUpper(home_arg)
        /\ integrated_state.away_team = StripUpper(away_arg)
        /\ integrated_state.identity = identity_result
        /\ integrated_state.chaos = chaos_result
        /\ integrated_state.volatility = volatility_result
        /\ integrated_state.debug.identity_type = identity_result.type
        /\ integrated_state.debug.chaos_type = chaos_result.type
        /\ integrated_state.debug.volatility_type = volatility_result.type
        /\ "spread" \in DOMAIN integrated_state
        /\ "spread_type" \in DOMAIN integrated_state.debug

PlaceholderNotes ==
    { "IdentityEngine placeholder executed.",
      "ChaosEngine placeholder executed.",
      "VolatilityEngine placeholder executed.",
      "Bootstrap Pist01Beat.predict placeholder. Engines not yet wired." }

ReportsPlaceholder(r) ==
    \/ "notes" \in DOMAIN r /\ r.notes \in PlaceholderNotes
    \/ "debug" \in DOMAIN r /\ "note" \in DOMAIN r.debug /\ r.debug.note \in PlaceholderNotes

\* C4: no state returned by run holds an engine result that reports itself as a
\* placeholder, a run that received one has failed with IncompleteWiringError,
\* and predict hands no placeholder to its caller.
C4_NoPlaceholderReachesCaller ==
    /\ pc = "returned" =>
          /\ ~ReportsPlaceholder(integrated_state.identity)
          /\ ~ReportsPlaceholder(integrated_state.chaos)
          /\ ~ReportsPlaceholder(integrated_state.volatility)
    /\ ( pc \in {"returned", "raised"}
         /\ \/ ReportsPlaceholder(identity_result)
            \/ ReportsPlaceholder(chaos_result)
            \/ ReportsPlaceholder(volatility_result) )
       => (pc = "raised" /\ err.kind = "IncompleteWiringError")
    /\ pc = "predicted" => ~ReportsPlaceholder(prediction)

SameCodesReturned ==
    /\ pc = "returned"
    /\ snap.type = "call" /\ snap.pc = "returned"
    /\ snap.home = home_arg /\ snap.away = away_arg

\* C5: two returned runs for the same two codes hold the same identity result
\* and the same volatility result, whatever their notes.
C5_NotesReachOnlyChaos ==
    SameCodesReturned =>
        /\ integrated_state.identity = snap.state.identity
        /\ integrated_state.volatility = snap.state.volatility

C5_Witness ==
    /\ SameCodesReturned
    /\ snap.notes # notes_arg
    /\ integrated_state.chaos # snap.state.chaos

StageOrder == <<"identity", "chaos", "volatility">>

\* C7: when the i-th engine invoked raises, the run has ended with that very
\* error, no state, and no invocation after the i-th; no engine is invoked
\* twice or out of order.
C7_EngineFailurePropagates ==
    /\ Len(calls) <= Len(StageOrder)
    /\ calls = SubSeq(StageOrder, 1, Len(calls))
    /\ \A i \in 1..Len(calls) :
          wiring[StageOrder[i]] = "raising" =>
              /\ pc = "raised"
              /\ err = EngineError(StageOrder[i])
              /\ Len(calls) = i
              /\ integrated_state = None
    /\ pc = "raised" => integrated_state = None

C7_Witness ==
    /\ pc = "raised"
    /\ err = EngineError("chaos")
    /\ calls = <<"identity", "chaos">>
    /\ identity_result # None

Resolved == resolved # None

Keys(table) == DOMAIN table.items

CodeVariants(code) ==
    { code, Lower(code), Upper(code), Strip(code),
      <<" ">> \o code, code \o <<" ">>, <<" ">> \o code \o <<" ">> }

\* C8: normalizing a normalized code changes nothing, and the lower-case,
\* upper-case and blank-padded variants of the resolved code resolve to the
\* very outcome the code itself resolved to.
C8_NormalizationIdempotent ==
    /\ NormalizeCode(NormalizeCode(team_code)) = NormalizeCode(team_code)
    /\ Resolved =>
          \A v \in CodeVariants(team_code) :
              /\ NormalizeCode(v) = NormalizeCode(team_code)
              /\ GetTeamProfile(TEAM_PROFILES, v) = resolved

C8_Witness ==
    /\ Resolved /\ ~resolved.raised
    /\ team_code = <<" ", "d", "e", "n", " ">>
    /\ resolved.value.items["base_power"] = 10000

\* An entry from which a profile can be built.
ValidEntry(e) ==
    /\ e.type = "dict"
    /\ RequiredSet \subseteq DOMAIN e.items
    /\ \A k \in RequiredSet : Coercible(e.items[k])
    /\ \A k \in DOMAIN e.items : ~Overflows(e.items[k])

HoldsValuesOf(profile, e) ==
    \A k \in RequiredSet : profile.items[k] = e.items[k].milli

\* C9: with a valid GENERIC entry, a code that is blank or whose normalized form
\* is no key of the table resolves, without error, to the values of GENERIC and
\* to what resolving GENERIC itself yields; a code whose normalized form is a
\* key resolves to that entry's values, or fails when that entry is unusable,
\* and is never served from GENERIC instead.
C9_FallbackToGeneric ==
    (Resolved /\ TEAM_PROFILES.type = "dict") =>
        LET n == NormalizeCode(team_code)
            items == TEAM_PROFILES.items
        IN  /\ ( /\ Blank(team_code) \/ n \notin Keys(TEAM_PROFILES)
                 /\ GENERIC \in Keys(TEAM_PROFILES)
                 /\ ValidEntry(items[GENERIC]) )
               => /\ ~resolved.raised
                  /\ HoldsValuesOf(resolved.value, items[GENERIC])
                  /\ resolved = GetTeamProfile(TEAM_PROFILES, GENERIC)
            /\ n \in Keys(TEAM_PROFILES)
               => IF ValidEntry(items[n])
                  THEN ~resolved.raised /\ HoldsValuesOf(resolved.value, items[n])
                  ELSE resolved.raised

C9_Witness ==
    /\ Resolved /\ ~resolved.raised
    /\ TEAM_PROFILES.type = "dict"
    /\ NormalizeCode(team_code) = HOR
    /\ HOR \notin Keys(TEAM_PROFILES)
    /\ DEN \in Keys(TEAM_PROFILES)
    /\ resolved.value.items["base_power"] = 5000

\* The table is no mapping, or holds neither the normalized code nor GENERIC.
NotFoundCase(table, code) ==
    \/ table.type # "dict"
    \/ /\ NormalizeCode(code) \notin Keys(table)
       /\ GENERIC \notin Keys(table)

\* The entry resolved to, the code's own or GENERIC's, is no mapping.
ShapeCase(table, code) ==
    /\ table.type = "dict"
    /\ LET n == NormalizeCode(code)
       IN  \/ n \in Keys(table) /\ table.items[n].type # "dict"
           \/ /\ n \notin Keys(table)
              /\ GENERIC \in Keys(table)
              /\ table.items[GENERIC].type # "dict"

\* C10 as stated: a resolve that met an entry that is no mapping fails with an
\* error kind that no not-found failure has.
C10_ShapeErrorKindDistinct ==
    (Resolved /\ ShapeCase(TEAM_PROFILES, team_code)) =>
        /\ resolved.raised
        /\ \A t \in ConfigTables, c \in ResolverCodes :
              NotFoundCase(t, c) =>
                  GetTeamProfile(t, c).error.kind # resolved.error.kind

\* C10 as amended: both failures are TeamProfileError, told apart by their
\* message only, and neither returns a profile.
C10_ProfileErrorsShareKind ==
    Resolved =>
        /\ NotFoundCase(TEAM_PROFILES, team_code) =>
              /\ resolved.raised
              /\ resolved.value = None
              /\ resolved.error.kind = "TeamProfileError"
              /\ resolved.error.msg \in
                    { "TEAM_PROFILES must be a dict in config.py",
                      "Unknown team code and no GENERIC profile defined." }
        /\ ShapeCase(TEAM_PROFILES, team_code) =>
              /\ resolved.raised
              /\ resolved.value = None
              /\ resolved.error.kind = "TeamProfileError"
              /\ resolved.error.msg = "Profile must be a dict"

C10_Witness ==
    /\ Resolved /\ resolved.raised
    /\ ShapeCase(TEAM_PROFILES, team_code)
    /\ NormalizeCode(team_code) = HOR
    /\ resolved.error.detail = <<GENERIC, "str">>

\* The entry a code resolves to: its own when the normalized code is a key,
\* GENERIC's otherwise.
SourceOf(table, code) ==
    IF NormalizeCode(code) \in Keys(table) THEN NormalizeCode(code) ELSE GENERIC

EntryOf(table, code) == table.items[SourceOf(table, code)]

\* The resolver got as far as an entry that is a mapping.
ReachedEntry(table, code) ==
    /\ table.type = "dict"
    /\ SourceOf(table, code) \in Keys(table)
    /\ EntryOf(table, code).type = "dict"

MissingSet(e) == RequiredSet \ DOMAIN e.items

SeqSet(q) == {q[i] : i \in 1..Len(q)}

\* C11: when the entry resolved to lacks required attributes, resolve fails
\* with one error whose list of names holds every missing required attribute
\* once and no attribute the entry has; an entry that lacks only pace yields the
\* list "pace".  No profile is returned.
C11_MissingFieldsBatched ==
    (Resolved /\ ReachedEntry(TEAM_PROFILES, team_code)
              /\ MissingSet(EntryOf(TEAM_PROFILES, team_code)) # {}) =>
        LET e == EntryOf(TEAM_PROFILES, team_code)
        IN  /\ resolved.raised
            /\ resolved.value = None
            /\ resolved.error.kind = "TeamProfileError"
            /\ resolved.error.msg = "Profile is missing required keys"
            /\ resolved.error.detail[1] = SourceOf(TEAM_PROFILES, team_code)
            /\ SeqSet(resolved.error.detail[2]) = MissingSet(e)
            /\ Len(resolved.error.detail[2]) = Cardinality(MissingSet(e))
            /\ MissingSet(e) = {"pace"} => resolved.error.detail[2] = <<"pace">>

C11_Witness ==
    /\ Resolved /\ resolved.raised
    /\ resolved.error.kind = "TeamProfileError"
    /\ resolved.error.msg = "Profile is missing required keys"
    /\ resolved.error.detail = <<DEN, <<"pace", "chaos">> >>
    /\ ~Coercible(EntryOf(TEAM_PROFILES, team_code).items["volatility"])

\* The required attributes whose value float() does not accept, in order.
UnconvertibleKeys(e) == SelectSeq(required_keys, LAMBDA k : ~Coercible(e.items[k]))

\* All six required attributes are present and one of them is unconvertible.
CoercionCase(table, code) ==
    /\ ReachedEntry(table, code)
    /\ MissingSet(EntryOf(table, code)) = {}
    /\ UnconvertibleKeys(EntryOf(table, code)) # <<>>

\* The error of an engine whose baseline set lacks a key.
MissingBaselineError ==
    GetBaseline(Dict(<<>>), "SPREAD_TOTAL_BASELINES", "home_edge").error

NumericExtras(e) ==
    {k \in DOMAIN e.items \ RequiredSet : e.items[k].type \in {"int", "float", "bool"}}

\* C13: an entry whose six required attributes are valid resolves to a profile
\* that holds the six required attributes and exactly the additional
\* attributes with a numeric value, each with the value of the entry.
C13_NumericExtrasPassThrough ==
    (Resolved /\ ReachedEntry(TEAM_PROFILES, team_code)
              /\ MissingSet(EntryOf(TEAM_PROFILES, team_code)) = {}
              /\ UnconvertibleKeys(EntryOf(TEAM_PROFILES, team_code)) = <<>>) =>
        LET e == EntryOf(TEAM_PROFILES, team_code)
        IN  /\ ~resolved.raised
            /\ DOMAIN resolved.value.items = RequiredSet \cup NumericExtras(e)
            /\ \A k \in DOMAIN resolved.value.items :
                  resolved.value.items[k] = e.items[k].milli

\* A baseline-weighted or hash engine was called, and it returned.
Called(engine) == matchup.type = "call" /\ matchup.engine = engine

Returned(engine) == Called(engine) /\ ~call_outcome.raised

\* The profile the resolver yields for an argument of an engine.
ProfileOf(code) == GetTeamProfile(TEAM_PROFILES, StripUpper(code)).value.items

\* The number a baseline set holds under a key, in thousandths.
Milli(baselines, key) == baselines.items[key].milli

\* x thousandths is a nearest whole number of thousandths to n/d, d > 0.
IsRounded(x, n, d) == 2 * Abs(x * d - n) <= d

\* C14: a returned identity result reports power_diff, pace_factor, base_spread
\* and base_total as the stated formulas over the two resolved profiles and the
\* identity baselines, each to the nearest thousandth; with home_edge 2.0,
\* power_spread_scale 0.1, pace_spread_scale 1.0, base_power 10 against 6 and
\* pace 5.0 on both sides base_spread is 6.4.
C14_IdentityFormulas ==
    Returned("identity") =>
        LET h == ProfileOf(matchup.home)
            a == ProfileOf(matchup.away)
            S == SPREAD_TOTAL_BASELINES
            v == call_outcome.value
            power_diff == h["base_power"] - a["base_power"]
            pace_sum == h["pace"] + a["pace"]
        IN  /\ v.power_diff = power_diff
            /\ IsRounded(v.pace_factor, pace_sum, 2)
            /\ IsRounded(v.base_spread,
                         2000 * Milli(S, "home_edge")
                            + 2 * Milli(S, "power_spread_scale") * power_diff
                            + Milli(S, "pace_spread_scale") * (pace_sum - 2000),
                         2000)
            /\ IsRounded(v.base_total,
                         4000 * Milli(S, "default_total")
                            + 2 * Milli(S, "pace_total_scale") * (pace_sum - 2000)
                            + 1000 * ((h["offense"] + a["offense"])
                                         - (h["defense"] + a["defense"])),
                         4000)
            /\ ( /\ Milli(S, "home_edge") = 2000
                 /\ Milli(S, "power_spread_scale") = 100
                 /\ Milli(S, "pace_spread_scale") = 1000
                 /\ h["base_power"] = 10000 /\ a["base_power"] = 6000
                 /\ h["pace"] = 5000 /\ a["pace"] = 5000 )
               => v.base_spread = 6400

C14_Witness ==
    /\ Returned("identity")
    /\ SPREAD_TOTAL_BASELINES = SpreadTotalDefault
    /\ ProfileOf(matchup.home)["base_power"] = 10000
    /\ ProfileOf(matchup.away)["base_power"] = 6000
    /\ call_outcome.value.base_spread = 6400
    /\ call_outcome.value.base_total = 228250

\* The set an engine reads its baselines from, its name and the keys it pulls.
BaselinesOf(engine) ==
    CASE engine = "identity" -> SPREAD_TOTAL_BASELINES
      [] engine = "chaos" -> CHAOS_BASELINES
      [] engine = "volatility" -> VOLATILITY_BASELINES

SetNameOf(engine) ==
    CASE engine = "identity" -> "SPREAD_TOTAL_BASELINES"
      [] engine = "chaos" -> "CHAOS_BASELINES"
      [] engine = "volatility" -> "VOLATILITY_BASELINES"

KeysOf(engine) ==
    CASE engine = "identity" -> IdentityBaselineKeys
      [] engine = "chaos" -> ChaosBaselineKeys
      [] engine = "volatility" -> VolatilityBaselineKeys

\* The key is absent from the set, or its value is of a type or text that is
\* no number.
DefectiveKey(baselines, key) ==
    \/ key \notin DOMAIN baselines.items
    \/ /\ ~Coercible(baselines.items[key])
       /\ ~Overflows(baselines.items[key])

BaselineDefect(baselines, keys) ==
    \/ baselines.type # "dict"
    \/ \E i \in 1..Len(keys) : DefectiveKey(baselines, keys[i])

BothProfilesResolve ==
    /\ ~GetTeamProfile(TEAM_PROFILES, StripUpper(matchup.home)).raised
    /\ ~GetTeamProfile(TEAM_PROFILES, StripUpper(matchup.away)).raised

\* C15: an identity, chaos or volatility computation whose baseline set is no
\* mapping, lacks a required key or holds a non-number under one fails and
\* returns nothing; when both profiles resolve the error is the
\* CalculationError of the first such key the engine pulls.
C15_BaselineDefectIsFatal ==
    \A engine \in {"identity", "chaos", "volatility"} :
        (Called(engine) /\ BaselineDefect(BaselinesOf(engine), KeysOf(engine))) =>
            /\ call_outcome.raised
            /\ call_outcome.value = None
            /\ BothProfilesResolve =>
                  /\ call_outcome.error.kind = "CalculationError"
                  /\ BaselinesOf(engine).type = "dict" =>
                        LET bad == SelectSeq(KeysOf(engine),
                                             LAMBDA k : DefectiveKey(BaselinesOf(engine), k))
                        IN  IF bad[1] \in DOMAIN BaselinesOf(engine).items
                            THEN call_outcome.error =
                                     CalculationError(<<SetNameOf(engine), bad[1]>>)
                            ELSE call_outcome.error =
                                     BaselineError("Missing baseline key",
                                                   SetNameOf(engine), bad[1])

C15_Witness ==
    /\ Called("identity")
    /\ call_outcome.raised
    /\ call_outcome.error =
          BaselineError("Missing baseline key", "SPREAD_TOTAL_BASELINES", "home_edge")
    /\ "pace_total_scale" \in DOMAIN SPREAD_TOTAL_BASELINES.items
    /\ BothProfilesResolve

\* C16: with home and away swapped, compute_identity of either identity
\* engine reports the negated power_diff and the same pace_factor and
\* base_total.
C16_IdentitySwap ==
    /\ Returned("identity") =>
          LET v == call_outcome.value
              w == ComputeIdentity(TEAM_PROFILES, SPREAD_TOTAL_BASELINES,
                                   matchup.away, matchup.home)
          IN  /\ ~w.raised
              /\ w.value.power_diff = -v.power_diff
              /\ w.value.pace_factor = v.pace_factor
              /\ w.value.base_total = v.base_total
    /\ Returned("hash_identity") =>
          LET v == call_outcome.value
              w == HashIdentity(matchup.away, matchup.home)
          IN  /\ w.power_diff = -v.power_diff
              /\ w.pace_factor = v.pace_factor
              /\ w.base_total = v.base_total

C16_Witness ==
    /\ Returned("identity")
    /\ call_outcome.value.power_diff > 0
    /\ ProfileOf(matchup.home)["pace"] # ProfileOf(matchup.away)["pace"]
    /\ ComputeIdentity(TEAM_PROFILES, SPREAD_TOTAL_BASELINES,
                       matchup.away, matchup.home).value.base_spread
          # call_outcome.value.base_spread

\* The weighted-sum score the chaos contract states, as a fraction of
\* thousandths: the divisor of raw_chaos is the weight sum, or 1.0 when the
\* weight sum is zero.
StatedChaosScore ==
    LET h == ProfileOf(matchup.home)
        a == ProfileOf(matchup.away)
        B == CHAOS_BASELINES
        weight_sum == Milli(B, "home_chaos_weight") + Milli(B, "away_chaos_weight")
        divisor == IF weight_sum = 0 THEN 1000 ELSE weight_sum
        raw_chaos == Frac(h["chaos"] * Milli(B, "home_chaos_weight")
                             + a["chaos"] * Milli(B, "away_chaos_weight"), divisor)
        volatility_part ==
            Frac(Milli(B, "volatility_weight") * (h["volatility"] + a["volatility"] - 10000), 2000)
        pace_part == Frac(Milli(B, "pace_weight") * (h["pace"] + a["pace"] - 10000), 2000)
    IN  FracAdd(FracAdd(Frac(Milli(B, "neutral_chaos") - 5000, 1), raw_chaos),
                FracAdd(volatility_part, pace_part))

\* C17: the chaos_score a baseline-weighted chaos call returns is the stated
\* weighted sum to the nearest thousandth, with no clamp.
C17_ChaosScoreFormula ==
    Returned("chaos") =>
        IsRounded(call_outcome.value.chaos_score, StatedChaosScore.n, StatedChaosScore.d)

\* Both weights are zero, so the divisor is 1.0, and the score is below zero.
C17_Witness ==
    /\ Returned("chaos")
    /\ Milli(CHAOS_BASELINES, "home_chaos_weight") = 0
    /\ Milli(CHAOS_BASELINES, "away_chaos_weight") = 0
    /\ call_outcome.value.chaos_score < 0
    /\ ProfileOf(matchup.home)["chaos"] # ProfileOf(matchup.away)["chaos"]

\* C18: the flag is HIGH when the score is at or above the high threshold,
\* otherwise LOW when it is at or below the low threshold, otherwise MEDIUM;
\* one flag for every score, HIGH first when the thresholds overlap.
C18_ChaosFlagTotal ==
    Returned("chaos") =>
        LET score == StatedChaosScore
            high == Milli(CHAOS_BASELINES, "high_chaos_threshold")
            low == Milli(CHAOS_BASELINES, "low_chaos_threshold")
            flag == call_outcome.value.chaos_flag
        IN  /\ flag \in {"HIGH", "LOW", "MEDIUM"}
            /\ flag = "HIGH" <=> score.n >= high * score.d
            /\ flag = "LOW" <=> (score.n < high * score.d /\ score.n <= low * score.d)
            /\ flag = "MEDIUM" <=> (score.n < high * score.d /\ score.n > low * score.d)

\* The score equals both thresholds, and the flag is HIGH.
C18_Witness ==
    /\ Returned("chaos")
    /\ StatedChaosScore = Frac(Milli(CHAOS_BASELINES, "high_chaos_threshold"), 1)
    /\ Milli(CHAOS_BASELINES, "low_chaos_threshold")
          = Milli(CHAOS_BASELINES, "high_chaos_threshold")
    /\ call_outcome.value.chaos_flag = "HIGH"

\* The weighted-sum score the volatility contract states.
StatedVolatilityScore ==
    LET h == ProfileOf(matchup.home)
        a == ProfileOf(matchup.away)
        B == VOLATILITY_BASELINES
        weight_sum == Milli(B, "home_volatility_weight") + Milli(B, "away_volatility_weight")
        divisor == IF weight_sum = 0 THEN 1000 ELSE weight_sum
        raw_volatility == Frac(h["volatility"] * Milli(B, "home_volatility_weight")
                                  + a["volatility"] * Milli(B, "away_volatility_weight"),
                               divisor)
        chaos_part == Frac(Milli(B, "chaos_weight") * (h["chaos"] + a["chaos"] - 10000), 2000)
        pace_part == Frac(Milli(B, "pace_weight") * (h["pace"] + a["pace"] - 10000), 2000)
    IN  FracAdd(FracAdd(Frac(Milli(B, "neutral_volatility") - 5000, 1), raw_volatility),
                FracAdd(chaos_part, pace_part))

\* C19: the volatility_score a baseline-weighted volatility call returns is
\* the stated weighted sum to the nearest thousandth, and its flag is HIGH at
\* or above the high threshold, otherwise LOW at or below the low threshold,
\* otherwise MEDIUM.
C19_VolatilityFormulaAndFlag ==
    Returned("volatility") =>
        LET score == StatedVolatilityScore
            high == Milli(VOLATILITY_BASELINES, "high_volatility_threshold")
            low == Milli(VOLATILITY_BASELINES, "low_volatility_threshold")
        IN  /\ IsRounded(call_outcome.value.volatility_score, score.n, score.d)
            /\ call_outcome.value.volatility_flag =
                  IF score.n >= high * score.d THEN "HIGH"
                  ELSE IF score.n <= low * score.d THEN "LOW"
                  ELSE "MEDIUM"

\* Unequal weights, different volatility values, a score on the low threshold.
C19_Witness ==
    /\ Returned("volatility")
    /\ Milli(VOLATILITY_BASELINES, "home_volatility_weight") = 750
    /\ Milli(VOLATILITY_BASELINES, "away_volatility_weight") = 250
    /\ ProfileOf(matchup.home)["volatility"] > ProfileOf(matchup.away)["volatility"]
    /\ call_outcome.value.volatility_flag = "MEDIUM"
    /\ StatedVolatilityScore.d > 1

\* C20: when the home weight equals the away weight, the call with home and
\* away swapped returns the same chaos score and flag, and the same
\* volatility score and flag.
C20_EqualWeightsSwap ==
    /\ ( /\ Returned("chaos")
         /\ Milli(CHAOS_BASELINES, "home_chaos_weight")
               = Milli(CHAOS_BASELINES, "away_chaos_weight") )
       => LET w == ComputeChaos(TEAM_PROFILES, CHAOS_BASELINES, matchup.away, matchup.home)
          IN  /\ ~w.raised
              /\ w.value.chaos_score = call_outcome.value.chaos_score
              /\ w.value.chaos_flag = call_outcome.value.chaos_flag
    /\ ( /\ Returned("volatility")
         /\ Milli(VOLATILITY_BASELINES, "home_volatility_weight")
               = Milli(VOLATILITY_BASELINES, "away_volatility_weight") )
       => LET w == ComputeVolatility(TEAM_PROFILES, VOLATILITY_BASELINES,
                                     matchup.away, matchup.home)
          IN  /\ ~w.raised
              /\ w.value.volatility_score = call_outcome.value.volatility_score
              /\ w.value.volatility_flag = call_outcome.value.volatility_flag

\* Equal non-zero weights and two teams that differ in chaos, volatility and pace.
C20_Witness ==
    /\ Returned("chaos")
    /\ Milli(CHAOS_BASELINES, "home_chaos_weight") = 500
    /\ Milli(CHAOS_BASELINES, "away_chaos_weight") = 500
    /\ ProfileOf(matchup.home)["chaos"] # ProfileOf(matchup.away)["chaos"]
    /\ ProfileOf(matchup.home)["volatility"] # ProfileOf(matchup.away)["volatility"]
    /\ ProfileOf(matchup.home)["pace"] # ProfileOf(matchup.away)["pace"]

\* What an identity argument provides under a name, as a field or as a key;
\* None when it provides nothing there.
Provided(identity, name) == IF name \in DOMAIN identity THEN identity[name] ELSE None

ProvidesBoth(identity) ==
    Provided(identity, "base_spread") # None /\ Provided(identity, "base_total") # None

\* C21: when the identity argument provides base_spread and base_total, as a
\* record or as a mapping and also when a value is 0, compute_lines returns
\* them unchanged as model_spread and model_total; no chaos or volatility
\* argument changes the pair; the caller's three objects are as they were.
C21_SpreadPassThrough ==
    (Called("spread") /\ ProvidesBoth(matchup.identity)) =>
        /\ ~call_outcome.raised
        /\ call_outcome.value.model_spread = Provided(matchup.identity, "base_spread")
        /\ call_outcome.value.model_total = Provided(matchup.identity, "base_total")
        /\ \A c \in SpreadContexts, v \in SpreadContexts :
              LET w == ComputeLines(matchup.home, matchup.away, matchup.identity, c, v)
              IN  /\ ~w.raised
                  /\ w.value.model_spread = call_outcome.value.model_spread
                  /\ w.value.model_total = call_outcome.value.model_total
        /\ matchup.held = [ identity |-> matchup.identity, chaos |-> matchup.chaos,
                            volatility |-> matchup.volatility ]

\* A mapping with base_spread 0, and chaos and volatility arguments that differ.
C21_Witness ==
    /\ Returned("spread")
    /\ matchup.identity.type = "dict"
    /\ call_outcome.value.model_spread = PyFloat(0)
    /\ call_outcome.value.model_total = PyFloat(228250)
    /\ matchup.chaos # None /\ matchup.volatility # matchup.chaos

\* C22: compute_lines raises, and returns nothing, exactly when the identity
\* argument provides no base_spread or no base_total, whatever its shape; it
\* puts no default in the place of a missing field.
C22_MissingIdentityField ==
    Called("spread") =>
        /\ call_outcome.raised <=> ~ProvidesBoth(matchup.identity)
        /\ call_outcome.raised =>
              /\ call_outcome.error.kind = "ValueError"
              /\ call_outcome.value = None

\* An object with attributes that has base_spread and no base_total.
C22_Witness ==
    /\ Called("spread") /\ call_outcome.raised
    /\ matchup.identity.type = "SimpleNamespace"
    /\ Provided(matchup.identity, "base_spread") # None
    /\ Provided(matchup.identity, "base_total") = None

C24_HashVolatilityScoreInUnitInterval ==
    Returned("hash_volatility") =>
        /\ call_outcome.value.volatility_score >= 0
        /\ call_outcome.value.volatility_score <= ScoreOne

\* The flag and score a hash-derived engine returned, and its two thresholds
\* in the unit of the score.
HashFlag ==
    IF Called("hash_chaos") THEN call_outcome.value.chaos_flag
    ELSE call_outcome.value.volatility_flag

HashScore ==
    IF Called("hash_chaos") THEN call_outcome.value.chaos_score
    ELSE call_outcome.value.volatility_score

HashLow == matchup.params.low_threshold * HashDen

HashHigh == matchup.params.high_threshold * HashDen

HashCalled == Called("hash_chaos") \/ Called("hash_volatility")

FlagRank(flag) == CASE flag = "LOW" -> 0 [] flag = "MEDIUM" -> 1 [] flag = "HIGH" -> 2

\* The scores the engine called can return under its constructor arguments
\* (for chaos, without notes).
HashScores ==
    IF Called("hash_chaos")
    THEN { ChaosClamp(ChaosNormalizeBaseScore(matchup.params, raw)) : raw \in 0..999 }
    ELSE { VolatilityNormalize(matchup.params, raw) : raw \in 0..999 }

HashFlagOf(score) ==
    IF Called("hash_chaos") THEN ChaosLabelFlag(matchup.params, score)
    ELSE VolatilityLabel(matchup.params, score)

\* C28 as stated: LOW exactly below the low threshold, MEDIUM exactly from the
\* low threshold to below the high threshold, HIGH exactly from the high
\* threshold on.
C28_HashFlagThresholds ==
    HashCalled =>
        /\ HashFlag = "LOW" <=> HashScore < HashLow
        /\ HashFlag = "MEDIUM" <=> (HashLow <= HashScore /\ HashScore < HashHigh)
        /\ HashFlag = "HIGH" <=> HashScore >= HashHigh

\* C28 amended: LOW exactly below the low threshold, MEDIUM exactly from the
\* low threshold to below the high threshold, HIGH exactly when the score is
\* below neither threshold, which is "at or above the high threshold" when
\* low_threshold <= high_threshold; the flag never decreases as the score
\* grows, and it is the flag of the returned (for chaos: clamped) score.
C28_HashFlagLowFirst ==
    HashCalled =>
        /\ HashFlag = "LOW" <=> HashScore < HashLow
        /\ HashFlag = "MEDIUM" <=> (HashLow <= HashScore /\ HashScore < HashHigh)
        /\ HashFlag = "HIGH" <=> (HashScore >= HashHigh /\ HashScore >= HashLow)
        /\ HashLow <= HashHigh => (HashFlag = "HIGH" <=> HashScore >= HashHigh)
        /\ \A other \in HashScores :
              other <= HashScore => FlagRank(HashFlagOf(other)) <= FlagRank(HashFlag)

\* The clamp raised a negative sum to 0, which is the low threshold: MEDIUM.
C28_Witness ==
    /\ Returned("hash_chaos")
    /\ call_outcome.value.debug.base_score + call_outcome.value.debug.note_boost < 0
    /\ HashScore = 0 /\ HashLow = 0
    /\ HashFlag = "MEDIUM"

\* The codes an engine result carries are those that were passed, trimmed and
\* upper-cased.
CarriesNormalizedCodes(engine) ==
    Returned(engine) =>
        /\ call_outcome.value.home_team = StripUpper(matchup.home)
        /\ call_outcome.value.away_team = StripUpper(matchup.away)

\* C25: the home_team and away_team of every engine result are the trimmed,
\* upper-cased forms of the codes passed to the engine.
C25_ResultsCarryNormalizedCodes ==
    \A engine \in {"identity", "chaos", "volatility", "hash_identity", "hash_chaos",
                   "hash_volatility", "spread"} : CarriesNormalizedCodes(engine)

\* C25 for the engines other than the spread engine.
C25_AllButSpread ==
    \A engine \in {"identity", "chaos", "volatility", "hash_identity", "hash_chaos",
                   "hash_volatility"} : CarriesNormalizedCodes(engine)

\* C26: while the codes are being validated, and when validation has rejected
\* them, no engine has been invoked by the call; whenever an engine has been
\* invoked, the normalized codes are non-empty and different.
C26_ValidationPrecedesEngines ==
    /\ (pc = "validate" \/ (pc = "raised" /\ err.origin = "validate")) => calls = <<>>
    /\ calls # <<>> =>
          /\ ValidateMatchup(StripUpper(home_arg), StripUpper(away_arg)) = NoError
          /\ home_team = StripUpper(home_arg) /\ away_team = StripUpper(away_arg)
          /\ calls[1] = "identity"

\* A call with two spellings of one code was rejected by the second check.
C26_Witness ==
    /\ pc = "raised" /\ err.origin = "validate"
    /\ home_arg # <<>> /\ home_arg # away_arg
    /\ StripUpper(home_arg) = StripUpper(away_arg)
    /\ wiring = DefaultWiring
    /\ calls = <<>>

\* The results nested in a returned state.
NestedResults ==
    { integrated_state.identity, integrated_state.chaos, integrated_state.volatility }

\* C29: in a returned state the top-level codes are non-empty and different,
\* and every nested engine result that records codes records the top-level
\* ones.
C29_NestedCodesAgree ==
    pc = "returned" =>
        /\ integrated_state.home_team # <<>> /\ integrated_state.away_team # <<>>
        /\ integrated_state.home_team # integrated_state.away_team
        /\ integrated_state.home_team = StripUpper(home_arg)
        /\ integrated_state.away_team = StripUpper(away_arg)
        /\ \A r \in NestedResults :
              /\ "home_team" \in DOMAIN r => r.home_team = integrated_state.home_team
              /\ "away_team" \in DOMAIN r => r.away_team = integrated_state.away_team
        /\ wiring = DefaultWiring =>
              \A r \in NestedResults : {"home_team", "away_team"} \subseteq DOMAIN r

\* The three default engines ran on codes that were passed padded and in
\* lower case.
C29_Witness ==
    /\ pc = "returned" /\ wiring = DefaultWiring
    /\ home_arg # integrated_state.home_team
    /\ away_arg # integrated_state.away_team
    /\ integrated_state.chaos.home_team = integrated_state.home_team
    /\ integrated_state.volatility.away_team = integrated_state.away_team

\* C27: the flag of a baseline-weighted chaos or volatility result is HIGH
\* exactly when the score the result reports is at or above the high
\* threshold, and LOW exactly when the result is not HIGH and the reported
\* score is at or below the low threshold.
C27_FlagAgreesWithReportedScore ==
    /\ Returned("chaos") =>
          LET score == call_outcome.value.chaos_score
              flag == call_outcome.value.chaos_flag
          IN  /\ flag = "HIGH" <=> score >= Milli(CHAOS_BASELINES, "high_chaos_threshold")
              /\ flag = "LOW" <=>
                    (flag # "HIGH" /\ score <= Milli(CHAOS_BASELINES, "low_chaos_threshold"))
    /\ Returned("volatility") =>
          LET score == call_outcome.value.volatility_score
              flag == call_outcome.value.volatility_flag
          IN  /\ flag = "HIGH" <=>
                    score >= Milli(VOLATILITY_BASELINES, "high_volatility_threshold")
              /\ flag = "LOW" <=>
                    (flag # "HIGH"
                       /\ score <= Milli(VOLATILITY_BASELINES, "low_volatility_threshold"))

\* The defect of the configuration that stands in the way of a code, by the
\* stage of the resolver that meets it; "none" when the code resolves.
ProfileDefect(table, code) ==
    IF table.type # "dict" THEN "not_found"
    ELSE IF SourceOf(table, code) \notin Keys(table) THEN "not_found"
    ELSE IF EntryOf(table, code).type # "dict" THEN "shape"
    ELSE IF MissingSet(EntryOf(table, code)) # {} THEN "missing"
    ELSE IF UnconvertibleKeys(EntryOf(table, code)) # <<>> THEN "coercion"
    ELSE "none"

\* The stage an error was raised at, and the code or set it is about.
ReportedDefect(error) ==
    IF error.kind = "TeamProfileError"
    THEN CASE error.msg = "TEAM_PROFILES must be a dict in config.py" ->
                 [stage |-> "not_found", about |-> <<"table">>]
           [] error.msg = "Unknown team code and no GENERIC profile defined." ->
                 [stage |-> "not_found", about |-> error.detail]
           [] error.msg = "Profile must be a dict" ->
                 [stage |-> "shape", about |-> error.detail[1]]
           [] error.msg = "Profile is missing required keys" ->
                 [stage |-> "missing", about |-> error.detail[1]]
    ELSE IF error.origin = "_get_baseline"
    THEN [stage |-> "baseline", about |-> <<error.detail[1]>>]
    ELSE IF error.kind = "OverflowError"
    THEN [stage |-> "overflow", about |-> <<>>]
    ELSE IF error.context[2] \in RequiredSet
    THEN [stage |-> "coercion", about |-> error.context[1]]
    ELSE [stage |-> "baseline", about |-> <<error.context[1]>>]

\* The code an error of the resolver names for an argument: the key the entry
\* was found under, or the normalized code when there is none.
NamedFor(table, code) ==
    IF table.type # "dict" THEN <<"table">>
    ELSE IF SourceOf(table, code) \in Keys(table) THEN SourceOf(table, code)
    ELSE NormalizeCode(code)

\* C30: a baseline-weighted engine reports the defect of the home profile
\* when there is one, otherwise that of the away profile, otherwise that of
\* its baseline set; and the defect of a profile it reports is the first the
\* resolver meets: not found, then shape, then missing attribute, then
\* unconvertible value.
C30_DefectPrecedence ==
    \A engine \in {"identity", "chaos", "volatility"} :
        Called(engine) =>
            LET home_defect == ProfileDefect(TEAM_PROFILES, matchup.home)
                away_defect == ProfileDefect(TEAM_PROFILES, matchup.away)
            IN  IF home_defect # "none"
                THEN /\ call_outcome.raised
                     /\ ReportedDefect(call_outcome.error) =
                           [stage |-> home_defect,
                            about |-> NamedFor(TEAM_PROFILES, matchup.home)]
                ELSE IF away_defect # "none"
                THEN /\ call_outcome.raised
                     /\ ReportedDefect(call_outcome.error) =
                           [stage |-> away_defect,
                            about |-> NamedFor(TEAM_PROFILES, matchup.away)]
                ELSE IF BaselineDefect(BaselinesOf(engine), KeysOf(engine))
                THEN /\ call_outcome.raised
                     /\ ReportedDefect(call_outcome.error) =
                           [stage |-> "baseline", about |-> <<SetNameOf(engine)>>]
                ELSE TRUE

\* The home entry lacks an attribute, the away entry holds an unconvertible
\* value, and the baseline set of the engine called is defective.
C30_Witness ==
    /\ Called("chaos") /\ call_outcome.raised
    /\ ProfileDefect(TEAM_PROFILES, matchup.home) = "missing"
    /\ ProfileDefect(TEAM_PROFILES, matchup.away) = "coercion"
    /\ BaselineDefect(CHAOS_BASELINES, ChaosBaselineKeys)
    /\ ReportedDefect(call_outcome.error).stage = "missing"

====
